---------------------------- MODULE Spec2Model ----------------------------
(***************************************************************************)
(* Lama bytecode tool chain: image parser (disasm.rs), instruction decoder *)
(* (lamacore decoder.rs, interpreter.rs), reachability walker and verifier *)
(* (lamarifyer verifyer.rs), frame engine (frame.rs), interpreter core     *)
(* (interpreter.rs) and the command-line drivers (main.rs).                *)
(*                                                                         *)
(* Representation notes.                                                   *)
(*  - A byte is a number in 0..255; images and code sections are sequences *)
(*    of bytes, 1-based here, 0-based in the source: code[i+1] is the byte *)
(*    at offset i.                                                         *)
(*  - A 32-bit word is held as the signed integer with the same 32 bits,   *)
(*    so a u32 of 2^31 or more and an i32 below zero share a value.  A     *)
(*    cast `x as usize` of such a word gives a value of at least 2^31,     *)
(*    larger than every length in this model; the operators InBounds and   *)
(*    UsizeGt state the comparisons the source makes on the cast value.    *)
(***************************************************************************)
EXTENDS Integers, Sequences, FiniteSets, TLC

(***************************************************************************)
(* Little-endian words                                                     *)
(***************************************************************************)

\* i32::from_le_bytes / u32::from_le_bytes on four bytes b (a sequence)
from_le_bytes(b) ==
    b[1] + 256 * b[2] + 65536 * b[3]
         + 16777216 * (IF b[4] >= 128 THEN b[4] - 256 ELSE b[4])

\* i32::to_le_bytes / u32::to_le_bytes
to_le_bytes(x) ==
    << x % 256, (x \div 256) % 256, (x \div 65536) % 256, (x \div 16777216) % 256 >>

\* `(x as usize) < n` for a 32-bit word x and a length n < 2^31: the index
\* x addresses a slot of a container of n slots
InBounds(x, n) == x >= 0 /\ x < n

\* `(x as usize) > n` for a 32-bit word x and a limit n < 2^31
UsizeGt(x, n) == x < 0 \/ x > n

\* `(x as usize) >= n` for a 32-bit word x and a limit n <= 2^31 - 1
UsizeGe(x, n) == x < 0 \/ x >= n

Min(a, b) == IF a < b THEN a ELSE b
Max(a, b) == IF a > b THEN a ELSE b

(***************************************************************************)
(* Instruction decoding                                                    *)
(***************************************************************************)

\* An instruction: op names the variant, x its sub-selector (BINOP operator,
\* LOAD/LOADREF/STORE relation, CJMP kind, PATT kind, builtin), a and b its
\* immediates in declaration order, caps the capture words of CLOSURE.
Instr(op, x, a, b) == [op |-> op, x |-> x, a |-> a, b |-> b, caps |-> << >>]

NoInstr == Instr("NONE", 0, 0, 0)

\* CompareJumpKind
ISZERO == 0
ISNONZERO == 1

\* ValueRel::try_from
Global == 0
Local == 1
Arg == 2
Capture == 3

\* Builtin::try_from
Lread == 0
Lwrite == 1
Llength == 2
Lstring == 3
Barray == 4

\* Op::try_from
ADD == 1
SUB == 2
MUL == 3
DIV == 4
MOD == 5
LT == 6
LEQ == 7
GT == 8
GEQ == 9
EQ == 10
NEQ == 11
AND == 12
OR == 13

\* Decoder::next::<T> / Interpreter::next::<T> with size_of::<T>() = size:
\* the bounds test, the bytes read and the cursor after the read
next_ok(code, ip, size) == ip + size <= Len(code)

next_u8(code, ip) == code[ip + 1]

next_i32(code, ip) == from_le_bytes(SubSeq(code, ip + 1, ip + 4))

\* The variant and the number of i32 immediates the opcode table assigns to a
\* byte; "INVALID" where the table lists nothing
OpcodeOf(byte) ==
    LET hi == byte \div 16
        lo == byte % 16
    IN  CASE hi = 0 /\ lo = 0 -> [op |-> "NOP", n |-> 0]
          [] hi = 0 /\ lo >= 1 /\ lo <= 13 -> [op |-> "BINOP", n |-> 0]
          [] hi = 1 /\ lo = 0 -> [op |-> "CONST", n |-> 1]
          [] hi = 1 /\ lo = 1 -> [op |-> "STRING", n |-> 1]
          [] hi = 1 /\ lo = 2 -> [op |-> "SEXP", n |-> 2]
          [] hi = 1 /\ lo = 3 -> [op |-> "STI", n |-> 0]
          [] hi = 1 /\ lo = 4 -> [op |-> "STA", n |-> 0]
          [] hi = 1 /\ lo = 5 -> [op |-> "JMP", n |-> 1]
          [] hi = 1 /\ lo = 6 -> [op |-> "END", n |-> 0]
          [] hi = 1 /\ lo = 7 -> [op |-> "RET", n |-> 0]
          [] hi = 1 /\ lo = 8 -> [op |-> "DROP", n |-> 0]
          [] hi = 1 /\ lo = 9 -> [op |-> "DUP", n |-> 0]
          [] hi = 1 /\ lo = 10 -> [op |-> "SWAP", n |-> 0]
          [] hi = 1 /\ lo = 11 -> [op |-> "ELEM", n |-> 0]
          [] hi = 2 /\ lo <= 3 -> [op |-> "LOAD", n |-> 1]
          [] hi = 3 /\ lo <= 3 -> [op |-> "LOADREF", n |-> 1]
          [] hi = 4 /\ lo <= 3 -> [op |-> "STORE", n |-> 1]
          [] hi = 5 /\ lo <= 1 -> [op |-> "CJMP", n |-> 1]
          [] hi = 5 /\ lo = 2 -> [op |-> "BEGIN", n |-> 2]
          [] hi = 5 /\ lo = 3 -> [op |-> "CBEGIN", n |-> 2]
          [] hi = 5 /\ lo = 4 -> [op |-> "CLOSURE", n |-> 2]
          [] hi = 5 /\ lo = 5 -> [op |-> "CALLC", n |-> 1]
          [] hi = 5 /\ lo = 6 -> [op |-> "CALL", n |-> 2]
          [] hi = 5 /\ lo = 7 -> [op |-> "TAG", n |-> 2]
          [] hi = 5 /\ lo = 8 -> [op |-> "ARRAY", n |-> 1]
          [] hi = 5 /\ lo = 9 -> [op |-> "FAIL", n |-> 2]
          [] hi = 5 /\ lo = 10 -> [op |-> "LINE", n |-> 1]
          [] hi = 6 /\ lo <= 6 -> [op |-> "PATT", n |-> 0]
          [] hi = 7 /\ lo <= 3 -> [op |-> "CALLB", n |-> 0]
          [] hi = 7 /\ lo = 4 -> [op |-> "CALLB", n |-> 1]
          [] OTHER -> [op |-> "INVALID", n |-> 0]

\* The i32 immediates read one after another from offset ip: as many of the
\* n reads as fit succeed, each moving the cursor by four bytes
ReadImms(code, ip, n) ==
    LET fit == IF ip > Len(code) THEN 0 ELSE Min(n, (Len(code) - ip) \div 4)
    IN  [ok |-> fit = n,
         vals |-> [k \in 1..fit |-> next_i32(code, ip + 4 * (k - 1))],
         ip |-> ip + 4 * fit]

\* A decode result: err is "none" or the error, instr the instruction, ip the
\* cursor the decoder is left with
Decoded(err, instr, ip) == [err |-> err, instr |-> instr, ip |-> ip]

\* The arms shared by Decoder::decode and Interpreter::decode: every opcode
\* except CLOSURE's capture region.  ip is the cursor after the opcode byte.
decode_common(code, ip, byte) ==
    LET t == OpcodeOf(byte)
        lo == byte % 16
        r == ReadImms(code, ip, t.n)
        imm(k) == IF k <= t.n THEN r.vals[k] ELSE 0
    IN  IF t.op = "INVALID" THEN Decoded("InvalidOpcode", NoInstr, ip)
        ELSE IF ~r.ok THEN Decoded("ReadingMoreThenCodeSection", NoInstr, r.ip)
        ELSE Decoded("none",
               CASE t.op \in {"BINOP", "PATT"} -> Instr(t.op, lo, 0, 0)
                 [] t.op \in {"LOAD", "LOADREF", "STORE"} -> Instr(t.op, lo, imm(1), 0)
                 [] t.op = "CJMP" -> Instr(t.op, lo, imm(1), 0)
                 [] t.op = "CALLB" -> Instr(t.op, lo, imm(1), 0)
                 [] OTHER -> Instr(t.op, 0, imm(1), imm(2)),
               r.ip)

\* lamacore Decoder::decode, after Decoder::next::<u8> returned byte: CLOSURE
\* reads offset and arity and nothing more
Decoder_decode(code, ip, byte) == decode_common(code, ip, byte)

\* Interpreter::decode, after Interpreter::next::<u8> returned byte: 0xff is
\* HALT, CLOSURE reads offset, arity and then arity i32 words
Interpreter_decode(code, ip, byte) ==
    IF byte = 255 THEN Decoded("none", Instr("HALT", 0, 0, 0), ip)
    ELSE LET d == decode_common(code, ip, byte)
         IN  IF d.err # "none" \/ d.instr.op # "CLOSURE" THEN d
             ELSE IF d.instr.b < 0 THEN Decoded("panic", NoInstr, d.ip)
             ELSE LET c == ReadImms(code, d.ip, d.instr.b)
                  IN  IF ~c.ok
                      THEN Decoded("ReadingMoreThenCodeSection", NoInstr, c.ip)
                      ELSE Decoded("none", [d.instr EXCEPT !.caps = c.vals], c.ip)

\* One fetch: next::<u8> followed by decode, as every loop of the source does
Decoder_fetch(code, ip) ==
    IF ~next_ok(code, ip, 1) THEN Decoded("ReadingMoreThenCodeSection", NoInstr, ip)
    ELSE Decoder_decode(code, ip + 1, next_u8(code, ip))

Interpreter_fetch(code, ip) ==
    IF ~next_ok(code, ip, 1) THEN Decoded("ReadingMoreThenCodeSection", NoInstr, ip)
    ELSE Interpreter_decode(code, ip + 1, next_u8(code, ip))

(***************************************************************************)
(* Image parsing                                                           *)
(***************************************************************************)

\* A parse result: err is "none" or the BytefileError
Bytefile(err, S, G, P, syms, strtab, code) ==
    [err |-> err, stringtab_size |-> S, global_area_size |-> G,
     public_symbols_number |-> P, public_symbols |-> syms,
     string_table |-> strtab, code_section |-> code]

NoBytefile(err) == Bytefile(err, 0, 0, 0, << >>, << >>, << >>)

\* u32 read at offset pos of source (read_exact of four bytes)
word_at(source, pos) == from_le_bytes(SubSeq(source, pos + 1, pos + 4))

\* A parse that takes everything after the symbol table as code
parse_code_after_symbols(source) ==
    LET n == Len(source)
    IN  IF n < 12 THEN NoBytefile("UnexpectedEOF")
        ELSE LET S == word_at(source, 0)
                 G == word_at(source, 4)
                 P == word_at(source, 8)
                 symEnd == 12 + 8 * P
             IN  IF P < 0 \/ (n - 12) \div 8 < P THEN NoBytefile("UnexpectedEOF")
                 ELSE IF S < 0 \/ n - symEnd < S THEN NoBytefile("UnexpectedEOF")
                 ELSE Bytefile("none", S, G, P,
                        [k \in 1..P |-> << word_at(source, 12 + 8 * (k - 1)),
                                           word_at(source, 16 + 8 * (k - 1)) >>],
                        SubSeq(source, symEnd + 1, symEnd + S),
                        SubSeq(source, symEnd + 1, n))

\* Bytefile::parse
parse(source) ==
    LET n == Len(source)
    IN  IF n < 12 THEN NoBytefile("UnexpectedEOF")
        ELSE LET S == word_at(source, 0)
                 G == word_at(source, 4)
                 P == word_at(source, 8)
                 symEnd == 12 + 8 * P
             IN  IF P < 0 \/ (n - 12) \div 8 < P THEN NoBytefile("UnexpectedEOF")
                 ELSE IF S < 0 \/ n - symEnd < S THEN NoBytefile("UnexpectedEOF")
                 ELSE Bytefile("none", S, G, P,
                        [k \in 1..P |-> << word_at(source, 12 + 8 * (k - 1)),
                                           word_at(source, 16 + 8 * (k - 1)) >>],
                        SubSeq(source, symEnd + 1, symEnd + S),
                        SubSeq(source, symEnd + S + 1, n))

\* Bytefile::get_string_at_offset: the bytes from offset up to and including
\* the first NUL; "panic" is the slice failure for offset > len (the bounds
\* test is compiled only with the runtime_checks feature)
get_string_at_offset(string_table, offset) ==
    IF offset < 0 \/ offset > Len(string_table) THEN [err |-> "panic", bytes |-> << >>]
    ELSE LET nuls == {k \in (offset + 1)..Len(string_table) : string_table[k] = 0}
         IN  IF nuls = {}
             THEN [err |-> "InvalidStringIndexInStringTable", bytes |-> << >>]
             ELSE LET first_null == CHOOSE k \in nuls : \A j \in nuls : k <= j
                  IN  [err |-> "none",
                       bytes |-> SubSeq(string_table, offset + 1, first_null)]


(***************************************************************************)
(* Verifier: limits and stack effects                                      *)
(***************************************************************************)

MAX_SEXP_TAGLEN == 10
MAX_CAPTURES == 2147483647
MAX_OPERAND_STACK_SIZE == 2147483647
MAX_SEXP_MEMBERS == 65535
MAX_ARRAY_MEMBERS == 65535
MAX_PARAMS == 65535

\* An error value, or the absence of one: Ok
Err(kind, args) == [kind |-> kind, args |-> args]

Ok == Err("Ok", << >>)

\* The thread panicked: an index out of range, a failed unwrap, an
\* arithmetic fault or an explicit panic!
Panic == Err("panic", << >>)

\* A walk that would also stop after a conditional jump
is_terminal_or_cjmp(instr) == instr.op \in {"RET", "END", "FAIL", "JMP", "CJMP"}

\* Verifier::is_terminal
is_terminal(instr) == instr.op \in {"RET", "END", "FAIL", "JMP"}

\* A walk that would mark the offset of a CALL as a jump target too
is_jump_or_call(instr) == instr.op \in {"JMP", "CJMP", "CALL"}

\* Verifier::is_jump
is_jump(instr) == instr.op \in {"JMP", "CJMP"}

\* Verifier::is_call together with get_call_offset returning Some
is_call(instr) == instr.op = "CALL"

\* An isize (a word of 64 bits) as its value divided by 2^16 and the
\* remainder, for the sums of 32-bit words that do not fit 32 bits
isize(x) == [hi |-> x \div 65536, lo |-> x % 65536]

\* a + b on isize
isize_add(a, b) ==
    [hi |-> a.hi + b.hi + ((a.lo + b.lo) \div 65536), lo |-> (a.lo + b.lo) % 65536]

\* -a on isize
isize_neg(a) ==
    [hi |-> (-a.hi) - (IF a.lo = 0 THEN 0 ELSE 1), lo |-> (65536 - a.lo) % 65536]

\* A verifier that would not follow the height: every effect zero
untracked_effect(instr) == isize(0)

\* StackEffect::stack_size_effect
stack_size_effect(instr) ==
    CASE instr.op \in {"NOP", "END", "RET"} -> isize(0)
      [] instr.op = "BINOP" -> isize(-1)
      [] instr.op \in {"CONST", "STRING"} -> isize(1)
      [] instr.op \in {"BEGIN", "CBEGIN"} ->
            isize_add(isize(1 + 1 + 1 + 1 + 1 + 1),
                      isize_add(isize(instr.a), isize(instr.b)))
      [] instr.op = "CLOSURE" -> isize(1)
      [] instr.op = "STORE" -> isize(0)
      [] instr.op \in {"LOAD", "LOADREF"} -> isize(1)
      [] instr.op = "CALL" -> isize(1)
      [] instr.op = "CALLB" ->
            (CASE instr.x = Barray -> isize_add(isize_neg(isize(instr.a)), isize(1))
               [] instr.x = Lread -> isize(1)
               [] OTHER -> isize(0))
      [] instr.op = "CALLC" -> isize((-1) + 1 + 1)
      [] instr.op \in {"FAIL", "LINE"} -> isize(0)
      [] instr.op = "DROP" -> isize(-1)
      [] instr.op = "DUP" -> isize(1)
      [] instr.op \in {"SWAP", "JMP"} -> isize(0)
      [] instr.op \in {"CJMP", "ELEM", "STI"} -> isize(-1)
      [] instr.op = "STA" -> isize(-2)
      [] instr.op = "SEXP" -> isize_add(isize(1), isize_neg(isize(instr.b)))
      [] instr.op = "TAG" -> isize(0)
      [] instr.op = "PATT" -> (IF instr.x = 0 THEN isize(-1) ELSE isize(0))
      [] instr.op = "ARRAY" -> isize(0)
      [] OTHER -> isize(0)

\* StackEffect::push_effect
push_effect(instr) ==
    CASE instr.op \in {"NOP", "FAIL", "LINE", "DROP", "JMP", "CJMP", "HALT"} -> isize(0)
      [] instr.op \in {"BEGIN", "CBEGIN"} ->
            isize_add(isize(1 + 1 + 1 + 1 + 1 + 1),
                      isize_add(isize(instr.a), isize(instr.b)))
      [] instr.op \in {"LOADREF", "CALLC", "DUP", "SWAP"} -> isize(2)
      [] OTHER -> isize(1)

\* A verifier that would report the size effect in place of the pop count
size_effect_only(instr) == stack_size_effect(instr)

\* StackEffect::pop_effect
pop_effect(instr) == isize_add(stack_size_effect(instr), isize_neg(push_effect(instr)))

\* The state verify_instruction works on: the verifier's result so far, the
\* per-offset depth table, the abstract height, the slot of the current
\* function and the decoding cursor
VState(err, depths, h, fbo, dip) ==
    [err |-> err, stack_depths |-> depths, current_stack_depth |-> h,
     current_function_begin_offset |-> fbo, ip |-> dip]

\* The per-instruction checks of the match in verify_instruction; ip is the
\* decoder cursor (after the instruction), Ok when every check passes
instruction_checks(instr, ip, code_len, string_table, global_area_size) ==
    CASE instr.op \in {"BEGIN", "CBEGIN"} ->
            IF UsizeGt(instr.a, MAX_PARAMS)
            THEN Err("InvalidBeginArgs", << instr.a >>) ELSE Ok
      [] instr.op \in {"JMP", "CJMP", "CALL"} ->
            IF instr.a < 0 \/ UsizeGe(instr.a, code_len)
            THEN Err("InvalidJumpOffset", << ip, instr.a, code_len >>) ELSE Ok
      [] instr.op = "STRING" ->
            IF UsizeGe(instr.a, Len(string_table))
            THEN Err("StringIndexOutOfBounds", << >>) ELSE Ok
      [] instr.op = "SEXP" ->
            IF UsizeGe(instr.a, Len(string_table))
            THEN Err("StringIndexOutOfBounds", << >>)
            ELSE IF UsizeGe(instr.b, MAX_SEXP_MEMBERS)
            THEN Err("TooMuchMembers", << instr.b, MAX_SEXP_MEMBERS >>)
            ELSE LET tag == get_string_at_offset(string_table, instr.a)
                 IN  IF tag.err # "none" THEN Err("StringIndexOutOfBounds", << >>)
                     ELSE IF Len(tag.bytes) > MAX_SEXP_TAGLEN
                     THEN Err("SexpTagTooLong", << Len(tag.bytes) >>)
                     ELSE Ok
      [] instr.op = "ARRAY" ->
            IF UsizeGe(instr.a, MAX_ARRAY_MEMBERS)
            THEN Err("TooMuchMembers", << instr.a, MAX_ARRAY_MEMBERS >>) ELSE Ok
      [] instr.op \in {"STORE", "LOAD"} ->
            IF instr.x = Global /\ UsizeGe(instr.a, global_area_size)
            THEN Err(IF instr.op = "STORE" THEN "InvalidStoreIndex" ELSE "InvalidLoadIndex",
                     << Global, instr.a, global_area_size >>)
            ELSE Ok
      [] instr.op = "CLOSURE" ->
            IF instr.a < 0 \/ UsizeGe(instr.a, code_len)
            THEN Err("InvalidJumpOffset", << ip, instr.a, code_len >>)
            ELSE IF UsizeGe(instr.b, MAX_CAPTURES)
            THEN Err("TooManyCaptures", << instr.b >>)
            ELSE Ok
      [] OTHER -> Ok

\* Verifier::verify_instruction on the instruction decoded by verify, whose
\* end is current_inst_end (the decoder cursor on entry): the new verifier
\* state, err being Ok, the error returned, or Panic for the out-of-range
\* index into stack_depths.  The height is summed as an isize; a height the
\* verifier refuses is returned as the error only, verify's local being
\* dropped with its return.
verify_instruction(v, instr, current_inst_end, code_len, string_table, global_area_size) ==
    LET wide == isize_add(isize(v.current_stack_depth), stack_size_effect(instr))
        h == wide.hi * 65536 + wide.lo
        fbo == v.current_function_begin_offset
        needed == isize_neg(pop_effect(instr))
        withH == [v EXCEPT !.current_stack_depth = h]
    IN  IF wide.hi < 0
        THEN [v EXCEPT !.err = Err("StackUnderflow", << needed.hi * 65536 + needed.lo >>)]
        ELSE IF wide.hi > MAX_OPERAND_STACK_SIZE \div 65536
        THEN [v EXCEPT !.err = Err("StackOverflow", << >>)]
        ELSE IF ~InBounds(fbo, code_len)
        THEN [withH EXCEPT !.err = Panic]
        ELSE LET depths == IF h > v.stack_depths[fbo]
                           THEN [v.stack_depths EXCEPT ![fbo] = h]
                           ELSE v.stack_depths
                 rec == [withH EXCEPT !.stack_depths = depths]
                 chk == instruction_checks(instr, current_inst_end, code_len,
                                           string_table, global_area_size)
             IN  IF chk # Ok THEN [rec EXCEPT !.err = chk]
                 ELSE [rec EXCEPT
                         !.current_function_begin_offset =
                             IF instr.op \in {"BEGIN", "CBEGIN"} THEN current_inst_end ELSE fbo,
                         !.current_stack_depth =
                             IF instr.op = "END" THEN 0 ELSE h,
                         !.ip = IF instr.op = "JMP" THEN instr.a ELSE current_inst_end]


(***************************************************************************)
(* Patching of the image with the recorded depths (lamarifyer main)        *)
(***************************************************************************)

RECURSIVE BitOr(_, _)
\* a | b on non-negative integers
BitOr(a, b) ==
    IF a = 0 THEN b
    ELSE IF b = 0 THEN a
    ELSE Max(a % 2, b % 2) + 2 * BitOr(a \div 2, b \div 2)

\* payload |= (depth as u32) << 16 on the four bytes of a little-endian word:
\* the shift keeps the low 16 bits of depth, the low half of the word stays
patch_word(bytes, depth) ==
    LET hi == BitOr(bytes[3] + 256 * bytes[4], depth % 65536)
    IN  << bytes[1], bytes[2], hi % 256, hi \div 256 >>

RECURSIVE patch_from(_, _, _)
\* The patch loop of main from slot `offset` on: every slot with a non-zero
\* depth rewrites code_section[offset - 8 .. offset - 4]; err is Panic when
\* that range does not exist
patch_from(code, stack_depths, offset) ==
    IF offset >= Len(code) THEN [err |-> Ok, code |-> code]
    ELSE IF stack_depths[offset] = 0 THEN patch_from(code, stack_depths, offset + 1)
    ELSE IF offset < 8 THEN [err |-> Panic, code |-> code]
    ELSE LET w == patch_word(SubSeq(code, offset - 7, offset - 4), stack_depths[offset])
             patched == [k \in 1..Len(code) |->
                            IF k >= offset - 7 /\ k <= offset - 4
                            THEN w[k - (offset - 8)] ELSE code[k]]
         IN  patch_from(patched, stack_depths, offset + 1)


(***************************************************************************)
(* Values and heap objects                                                 *)
(***************************************************************************)

\* rtBox: (x << 1) | 1
rtBox(x) == 2 * x + 1

\* rtUnbox: x >> 1, an arithmetic shift
rtUnbox(x) == x \div 2

\* isUnboxed: x & 1 == 1
isUnboxed(x) == x % 2 = 1

\* An i64 as its bit pattern: four 16-bit limbs, the least significant first

\* A boxing that shifts and leaves the low bit clear
rtBox_untagged(x) ==
    [k \in 1..4 |-> ((2 * x[k]) % 65536) + (IF k > 1 THEN x[k - 1] \div 32768 ELSE 0)]

\* rtBox on the bit pattern: (x << 1) | 1; the shift drops the top bit and
\* does not trap
rtBox_i64(x) ==
    [k \in 1..4 |-> IF k > 1 THEN ((2 * x[k]) % 65536) + (x[k - 1] \div 32768)
                    ELSE BitOr((2 * x[k]) % 65536, 1)]

\* rtUnbox on the bit pattern: x >> 1, the sign bit is shifted in
rtUnbox_i64(x) ==
    [k \in 1..4 |-> (x[k] \div 2)
                      + 32768 * (IF k < 4 THEN x[k + 1] % 2 ELSE x[4] \div 32768)]

\* isUnboxed on the bit pattern: x & 1 == 1
isUnboxed_i64(x) == x[1] % 2 = 1

\* Object::Boxed(v) and Object::Unboxed(v)
Boxed(v) == [boxed |-> TRUE, v |-> v]
Unboxed(v) == [boxed |-> FALSE, v |-> v]

\* Object::new_boxed, Object::new_unboxed, Object::new_empty
new_boxed(value) == Boxed(rtBox(value))
new_unboxed(value) == Unboxed(value)
new_empty == Unboxed(0)

\* Object::unwrap
unwrap(obj) == IF obj.boxed THEN rtUnbox(obj.v) ELSE obj.v

\* Object::raw: the word held
raw(obj) == obj.v

\* A heap object: its kind (lama_type_STRING, lama_type_ARRAY,
\* lama_type_SEXP), its tag (the constructor name of a sexp) and its slots
HeapObj(kind, tag, contents) == [kind |-> kind, tag |-> tag, contents |-> contents]

\* The address of the k-th object allocated: word aligned, never zero
AddrOf(k) == 8 * k

\* A word that is the address of a live heap object
IsAddr(heap, v) == v > 0 /\ v % 8 = 0 /\ v \div 8 <= Len(heap)

ObjAt(heap, v) == heap[v \div 8]

\* Llength of the runtime on a live object: the number of slots
LlengthOf(heap, v) == Len(ObjAt(heap, v).contents)

(***************************************************************************)
(* Frame engine (frame.rs)                                                 *)
(***************************************************************************)

\* Vec::get on a 0-based index: present or not
HasSlot(stack, index) == index >= 0 /\ index < Len(stack)

Slot(stack, index) == stack[index + 1]

\* FrameMetadata::get_from_stack: none when a metadata slot is missing
get_from_stack(stack, frame_pointer) ==
    IF ~HasSlot(stack, frame_pointer + 1) \/ ~HasSlot(stack, frame_pointer + 4)
    THEN [some |-> FALSE, n_args |-> 0, n_locals |-> 0,
          ret_frame_pointer |-> 0, ret_ip |-> 0]
    ELSE [some |-> TRUE,
          n_args |-> unwrap(Slot(stack, frame_pointer + 1)),
          n_locals |-> unwrap(Slot(stack, frame_pointer + 2)),
          ret_frame_pointer |-> unwrap(Slot(stack, frame_pointer + 3)),
          ret_ip |-> unwrap(Slot(stack, frame_pointer + 4))]

\* FrameMetadata::get_arg_at: the slot index, read with Vec::get
arg_index(frame_pointer, index) == frame_pointer + 5 + index

\* A frame that would keep its locals where its arguments are
local_index_without_args(frame, frame_pointer, index) == frame_pointer + 5 + index

\* FrameMetadata::get_local_at: the slot index, read with Vec::get
local_index(frame, frame_pointer, index) == frame_pointer + 5 + frame.n_args + index

\* The acceptance test of FrameMetadata::set_arg_at / set_local_at for slot
\* `at`, index `index` (not negative) and the count n of the frame
setter_accepts(stack, at, index, n) ==
    ~(at >= Len(stack) \/ index > n)

\* FrameMetadata::set_arg_at: ok and the written stack, or the refusal
set_arg_at(frame, stack, frame_pointer, index, value) ==
    LET at == arg_index(frame_pointer, index)
    IN  IF setter_accepts(stack, at, index, frame.n_args)
        THEN [ok |-> TRUE, stack |-> [stack EXCEPT ![at + 1] = value]]
        ELSE [ok |-> FALSE, stack |-> stack]

\* FrameMetadata::set_local_at
set_local_at(frame, stack, frame_pointer, index, value) ==
    LET at == local_index(frame, frame_pointer, index)
    IN  IF setter_accepts(stack, at, index, frame.n_locals)
        THEN [ok |-> TRUE, stack |-> [stack EXCEPT ![at + 1] = value]]
        ELSE [ok |-> FALSE, stack |-> stack]


(***************************************************************************)
(* Interpreter core (interpreter.rs)                                       *)
(***************************************************************************)

\* What the collector knows of the operand stack, and the Vec that backs it:
\* buf counts the buffers the Vec has had and cap is the capacity of the
\* current one; bottom and top are the published addresses, each a buffer
\* and a slot in it, set once gc_sync has run; alloc is the same record as
\* the latest heap allocation found it, with the length of the stack then
NoGc ==
    [buf |-> 0, cap |-> 0, set |-> FALSE, bottom |-> << 0, 0 >>, top |-> << 0, 0 >>,
     alloc |-> [some |-> FALSE, set |-> FALSE, bottom |-> << 0, 0 >>,
                top |-> << 0, 0 >>, buf |-> 0, len |-> 0]]

\* Vec::push on a vector of len elements: a full buffer is replaced by one
\* of twice the capacity, of four slots at least
Vec_push(g, len) ==
    IF len < g.cap THEN g
    ELSE [g EXCEPT !.buf = @ + 1, !.cap = Max(4, 2 * g.cap)]

RECURSIVE Vec_of(_)
\* Vec::new() followed by n pushes, none of them published
Vec_of(n) == IF n = 0 THEN NoGc ELSE Vec_push(Vec_of(n - 1), n - 1)

\* Interpreter::gc_sync on a stack of len > 0 elements: gc_set_top of the
\* address of the last element, gc_set_bottom of the address of the first
gc_sync(g, len) ==
    [g EXCEPT !.set = TRUE, !.top = << g.buf, len - 1 >>, !.bottom = << g.buf, 0 >>]

\* The interpreter's state while one instruction is evaluated: err is Ok
\* until a step fails, acc collects the objects popped so far
IState(err, stack, fp, ip, globals, heap, out) ==
    [err |-> err, operand_stack |-> stack, frame_pointer |-> fp, ip |-> ip,
     globals |-> globals, heap |-> heap, out |-> out, acc |-> << >>, gc |-> NoGc]

StackUnderflow == Err("StackUnderflow", << >>)

\* F applied to the value of v: the state a step works on is computed once
\* and handed on, as the `&mut self` of the source is
Strict(F(_), v) == CHOOSE r \in {F(x) : x \in {v}} : TRUE

\* `?` after a failed step: nothing further is evaluated
fail(st, e) == Strict(LAMBDA s : IF s.err = Ok THEN [s EXCEPT !.err = e] ELSE s, st)

\* A push that does not publish the stack bounds
push_unsynced(st, obj) ==
    Strict(LAMBDA s : IF s.err # Ok THEN s
                      ELSE [s EXCEPT !.operand_stack = Append(@, obj),
                                     !.gc = Vec_push(@, Len(s.operand_stack))],
           st)

\* Interpreter::push: append, then gc_sync (which cannot fail after a push)
push(st, obj) ==
    Strict(LAMBDA s : IF s.err # Ok THEN s
                      ELSE [s EXCEPT !.operand_stack = Append(@, obj),
                                     !.gc = gc_sync(Vec_push(@, Len(s.operand_stack)),
                                                    Len(s.operand_stack) + 1)],
           st)

\* Interpreter::pop: Vec::pop, then gc_sync, which fails with StackUnderflow
\* when the stack is empty after the pop; the popped object joins acc
pop(st) ==
    Strict(LAMBDA s :
             IF s.err # Ok THEN s
             ELSE IF s.operand_stack = << >> THEN [s EXCEPT !.err = StackUnderflow]
             ELSE LET n == Len(s.operand_stack)
                  IN  [s EXCEPT !.operand_stack = SubSeq(@, 1, n - 1),
                                !.acc = Append(@, s.operand_stack[n]),
                                !.err = IF n = 1 THEN StackUnderflow ELSE Ok,
                                !.gc = IF n = 1 THEN @ ELSE gc_sync(@, n - 1)],
           st)

RECURSIVE pop_n(_, _)
\* `for _ in 0..n { self.pop()? }`
pop_n(st, n) ==
    Strict(LAMBDA s : IF n <= 0 \/ s.err # Ok THEN s ELSE pop_n(pop(s), n - 1), st)

RECURSIVE push_all(_, _)
\* the objects of a sequence pushed first to last, each by Interpreter::push
push_all(st, objs) ==
    Strict(LAMBDA s : IF s.err # Ok \/ objs = << >> THEN s
                      ELSE push_all(push(s, Head(objs)), Tail(objs)),
           st)

\* The error of a pop handed on as it is
keep_err(st, e) == st

\* map_err on the error of a pop
map_err(st, e) ==
    Strict(LAMBDA s : IF s.err = StackUnderflow THEN [s EXCEPT !.err = e] ELSE s, st)

\* The popped objects kept in pop order
Unreversed(q) == q

Reverse(q) == [k \in 1..Len(q) |-> q[Len(q) + 1 - k]]

\* the objects a step popped, in pop order
Acc(st, k) == st.acc[k]

\* i64 `/` and `%`: truncation toward zero
TruncDiv(l, r) ==
    LET q == (IF l < 0 THEN -l ELSE l) \div (IF r < 0 THEN -r ELSE r)
    IN  IF (l < 0) = (r < 0) THEN q ELSE -q

TruncRem(l, r) == l - r * TruncDiv(l, r)

b2i(c) == IF c THEN 1 ELSE 0

\* the result of the match on op in the BINOP arm, for a non-zero divisor
binop_result(op, left, right) ==
    CASE op = ADD -> left + right
      [] op = SUB -> left - right
      [] op = MUL -> left * right
      [] op = DIV -> TruncDiv(left, right)
      [] op = MOD -> TruncRem(left, right)
      [] op = EQ -> b2i(left = right)
      [] op = NEQ -> b2i(left # right)
      [] op = LT -> b2i(left < right)
      [] op = LEQ -> b2i(left <= right)
      [] op = GT -> b2i(left > right)
      [] op = GEQ -> b2i(left >= right)
      [] op = AND -> b2i(left # 0 /\ right # 0)
      [] op = OR -> b2i(left # 0 \/ right # 0)

\* A BINOP that would take the value popped first for the left operand
eval_BINOP_swapped(st, instr) ==
    LET p == pop(pop(st))
    IN  IF p.err # Ok THEN p
        ELSE IF instr.x \in {DIV, MOD} /\ unwrap(Acc(p, 2)) = 0 THEN fail(p, Panic)
        ELSE push(p, new_boxed(binop_result(instr.x, unwrap(Acc(p, 1)),
                                            unwrap(Acc(p, 2)))))

\* Instruction::BINOP: `left / right` and `left % right` panic on a zero
\* divisor
eval_BINOP(st, instr) ==
    LET p == pop(pop(st))
    IN  IF p.err # Ok THEN p
        ELSE LET right == unwrap(Acc(p, 1))
                 left == unwrap(Acc(p, 2))
             IN  IF instr.x \in {DIV, MOD} /\ right = 0 THEN fail(p, Panic)
                 ELSE push(p, new_boxed(binop_result(instr.x, left, right)))

\* allocation of a heap object and push of its address
alloc_push(st, obj) ==
    Strict(LAMBDA s : IF s.err # Ok THEN s
                      ELSE push([s EXCEPT !.heap = Append(@, obj),
                                          !.gc.alloc =
                                             [some |-> TRUE, set |-> s.gc.set,
                                              bottom |-> s.gc.bottom, top |-> s.gc.top,
                                              buf |-> s.gc.buf,
                                              len |-> Len(s.operand_stack)]],
                                Boxed(AddrOf(Len(s.heap) + 1))),
           st)

\* Instruction::STRING
eval_STRING(st, instr, string_table) ==
    LET str == get_string_at_offset(string_table, instr.a)
    IN  IF str.err = "panic" THEN fail(st, Panic)
        ELSE IF str.err # "none" THEN fail(st, Err("StringIndexOutOfBounds", << >>))
        ELSE alloc_push(st, HeapObj("STRING", << >>,
                                    SubSeq(str.bytes, 1, Len(str.bytes) - 1)))

\* Instruction::SEXP
eval_SEXP(st, instr, string_table) ==
    LET tag == get_string_at_offset(string_table, instr.a)
    IN  IF tag.err = "panic" THEN fail(st, Panic)
        ELSE IF tag.err # "none" THEN fail(st, Err("StringIndexOutOfBounds", << >>))
        ELSE IF instr.b < 0 THEN fail(st, Panic)
        ELSE LET p == pop_n(st, instr.b)
             IN  IF p.err # Ok THEN p
                 ELSE alloc_push(p, HeapObj("SEXP",
                                   SubSeq(tag.bytes, 1, Len(tag.bytes) - 1),
                                   Reverse([k \in 1..instr.b |-> raw(Acc(p, k))])))

\* A JMP that accepts the length of the code section as an offset
eval_JMP_to_end(st, instr, code_len) ==
    IF instr.a < 0 \/ UsizeGt(instr.a, code_len)
    THEN fail(st, Err("InvalidJumpOffset", << st.ip, instr.a, code_len >>))
    ELSE [st EXCEPT !.ip = instr.a]

\* Instruction::JMP
eval_JMP(st, instr, code_len) ==
    IF instr.a < 0 \/ UsizeGe(instr.a, code_len)
    THEN fail(st, Err("InvalidJumpOffset", << st.ip, instr.a, code_len >>))
    ELSE [st EXCEPT !.ip = instr.a]

\* Reading the header of the object a Boxed word points at, when the word is
\* not the address of a heap object: the read is outside the heap
WildRead == Err("ub", << >>)

\* Instruction::STA
eval_STA(st) ==
    LET p == pop(pop(pop(st)))
    IN  IF p.err # Ok THEN p
        ELSE LET value_obj == Acc(p, 1)
                 index_obj == Acc(p, 2)
                 aggregate == Acc(p, 3)
                 index == unwrap(index_obj)
             IN  IF ~aggregate.boxed
                 THEN fail(p, Err("InvalidType", << "STA" >>))
                 ELSE IF ~IsAddr(p.heap, aggregate.v) THEN fail(p, WildRead)
                 ELSE LET length == LlengthOf(p.heap, aggregate.v)
                          k == aggregate.v \div 8
                          kind == ObjAt(p.heap, aggregate.v).kind
                          word == CASE kind = "ARRAY" -> raw(value_obj)
                                    [] kind = "STRING" ->
                                         ((unwrap(value_obj) + 128) % 256) - 128
                                    [] OTHER -> unwrap(value_obj)
                      IN  IF index < 0 \/ index >= length
                          THEN fail(p, Err("OutOfBoundsAccess", << index, length >>))
                          ELSE push([p EXCEPT !.heap[k].contents[index + 1] = word],
                                    aggregate)

\* A BEGIN that would push the arguments back in the order it popped them
eval_BEGIN_args_as_popped(st, instr) ==
    LET p == map_err(pop_n(map_err(pop(st), Err("NotEnoughArguments", << "BEGIN" >>)),
                           instr.a),
                     Err("NotEnoughArguments", << "BEGIN" >>))
    IN  IF p.err # Ok THEN p
        ELSE push_all([p EXCEPT !.frame_pointer = Len(p.operand_stack) - 1],
                     << new_unboxed(instr.a), new_unboxed(instr.b),
                        new_unboxed(p.frame_pointer), Acc(p, 1) >>
                     \o [k \in 1..Max(instr.a, 0) |-> Acc(p, k + 1)]
                     \o [k \in 1..Max(instr.b, 0) |-> new_boxed(0)])

\* Instruction::BEGIN
eval_BEGIN(st, instr) ==
    LET p == map_err(pop_n(map_err(pop(st), Err("NotEnoughArguments", << "BEGIN" >>)),
                           instr.a),
                     Err("NotEnoughArguments", << "BEGIN" >>))
    IN  IF p.err # Ok THEN p
        ELSE LET ret_ip == Acc(p, 1)
                 arguments == [k \in 1..Max(instr.a, 0) |-> Acc(p, k + 1)]
                 ret_frame_pointer == p.frame_pointer
                 framed == [p EXCEPT !.frame_pointer = Len(p.operand_stack) - 1]
             IN  push_all(framed,
                     << new_unboxed(instr.a), new_unboxed(instr.b),
                        new_unboxed(ret_frame_pointer), ret_ip >>
                     \o Reverse(arguments)
                     \o [k \in 1..Max(instr.b, 0) |-> new_boxed(0)])

\* A return that would leave the locals of the callee on the stack
eval_END_keeps_locals(st) ==
    LET p == map_err(pop(st), Err("NotEnoughArguments", << "END" >>))
    IN  IF p.err # Ok THEN p
        ELSE LET frame == get_from_stack(p.operand_stack, p.frame_pointer)
             IN  IF ~frame.some THEN fail(p, Err("NotEnoughArguments", << "END" >>))
                 ELSE push(pop_n(pop_n([p EXCEPT !.frame_pointer = frame.ret_frame_pointer,
                                                 !.ip = frame.ret_ip], 4),
                                 frame.n_args),
                           Acc(p, 1))

\* Instruction::END | Instruction::RET
eval_END(st) ==
    LET p == map_err(pop(st), Err("NotEnoughArguments", << "END" >>))
    IN  IF p.err # Ok THEN p
        ELSE LET return_value == Acc(p, 1)
                 frame == get_from_stack(p.operand_stack, p.frame_pointer)
             IN  IF ~frame.some THEN fail(p, Err("NotEnoughArguments", << "END" >>))
                 ELSE LET moved == [p EXCEPT !.frame_pointer = frame.ret_frame_pointer,
                                             !.ip = frame.ret_ip]
                          unwound == pop_n(pop_n(pop_n(moved, 4), frame.n_args),
                                           frame.n_locals)
                      IN  push(unwound, return_value)


\* Instruction::STORE.  An Arg or Local index below zero is a usize whose
\* addition to the frame pointer overflows: the checked build panics.
eval_STORE(st, instr) ==
    LET frame == get_from_stack(st.operand_stack, st.frame_pointer)
    IN  IF ~frame.some THEN fail(st, Err("NotEnoughArguments", << "STORE" >>))
        ELSE LET p == pop(st)
             IN  IF p.err # Ok THEN p
                 ELSE LET value == Acc(p, 1)
                          w == IF instr.x = Arg
                               THEN set_arg_at(frame, p.operand_stack, p.frame_pointer,
                                               instr.a, value)
                               ELSE set_local_at(frame, p.operand_stack, p.frame_pointer,
                                                 instr.a, value)
                      IN  CASE instr.x = Capture -> fail(p, Panic)
                            [] instr.x = Global ->
                                 IF UsizeGe(instr.a, Len(p.globals))
                                 THEN fail(p, Err("InvalidStoreIndex",
                                                  << Global, instr.a, Len(p.globals) >>))
                                 ELSE push([p EXCEPT !.globals[instr.a + 1] = value], value)
                            [] instr.a < 0 -> fail(p, Panic)
                            [] OTHER ->
                                 IF ~w.ok
                                 THEN fail(p, Err("InvalidStoreIndex",
                                                  << instr.x, instr.a,
                                                     IF instr.x = Arg THEN frame.n_args
                                                     ELSE frame.n_locals >>))
                                 ELSE push([p EXCEPT !.operand_stack = w.stack], value)

\* Instruction::LOAD.  Negative Arg and Local indices as for STORE.
eval_LOAD(st, instr) ==
    LET frame == get_from_stack(st.operand_stack, st.frame_pointer)
        at == IF instr.x = Arg THEN arg_index(st.frame_pointer, instr.a)
              ELSE local_index(frame, st.frame_pointer, instr.a)
    IN  IF ~frame.some THEN fail(st, Err("NotEnoughArguments", << "STORE" >>))
        ELSE CASE instr.x = Capture -> fail(st, Panic)
               [] instr.x = Global ->
                    IF UsizeGe(instr.a, Len(st.globals))
                    THEN fail(st, Err("InvalidStoreIndex",
                                      << Global, instr.a, Len(st.globals) >>))
                    ELSE push(st, st.globals[instr.a + 1])
               [] instr.a < 0 -> fail(st, Panic)
               [] OTHER ->
                    IF ~HasSlot(st.operand_stack, at)
                    THEN fail(st, Err("InvalidStoreIndex",
                                      << instr.x, instr.a,
                                         IF instr.x = Arg THEN frame.n_args
                                         ELSE frame.n_locals >>))
                    ELSE push(st, Slot(st.operand_stack, at))

\* Instruction::CALL, builtin = false
eval_CALL(st, instr) ==
    [push(st, new_unboxed(st.ip)) EXCEPT !.ip = instr.a]

\* Instruction::CALL, builtin = true; input is the integer Lread returns
eval_CALLB(st, instr, input) ==
    CASE instr.x = Barray ->
            IF instr.a < 0 THEN fail(st, Panic)
            ELSE LET p == pop_n(st, instr.a)
                 IN  IF p.err # Ok THEN p
                     ELSE alloc_push(p, HeapObj("ARRAY", << >>,
                                       Reverse([k \in 1..instr.a |-> raw(Acc(p, k))])))
      [] instr.x = Llength ->
            LET p == pop(st)
            IN  IF p.err # Ok THEN p
                ELSE IF ~Acc(p, 1).boxed THEN fail(p, Err("InvalidObjectPointer", << >>))
                ELSE IF ~IsAddr(p.heap, Acc(p, 1).v) THEN fail(p, WildRead)
                ELSE push(p, new_boxed(LlengthOf(p.heap, Acc(p, 1).v)))
      [] instr.x = Lread -> push(st, new_boxed(input))
      [] instr.x = Lwrite ->
            LET p == pop(st)
            IN  IF p.err # Ok THEN p
                ELSE push([p EXCEPT !.out = Append(@, unwrap(Acc(p, 1)))], Acc(p, 1))
      [] instr.x = Lstring ->
            LET p == pop(st)
            IN  IF p.err # Ok THEN p
                ELSE alloc_push(p, HeapObj("STRING", << >>, << raw(Acc(p, 1)) >>))

\* A CJMP that jumps in the case where it is to fall through
eval_CJMP_inverted(st, instr) ==
    LET p == pop(st)
    IN  IF p.err # Ok THEN p
        ELSE LET value == unwrap(Acc(p, 1))
                 taken == IF instr.x = ISNONZERO THEN value = 0 ELSE value # 0
             IN  IF taken THEN [p EXCEPT !.ip = instr.a] ELSE p

\* Instruction::CJMP
eval_CJMP(st, instr) ==
    LET p == pop(st)
    IN  IF p.err # Ok THEN p
        ELSE LET value == unwrap(Acc(p, 1))
                 taken == IF instr.x = ISNONZERO THEN value # 0 ELSE value = 0
             IN  IF taken THEN [p EXCEPT !.ip = instr.a] ELSE p

\* Instruction::ELEM
eval_ELEM(st) ==
    LET p == pop(pop(st))
    IN  IF p.err # Ok THEN p
        ELSE LET index_obj == Acc(p, 1)
                 obj == Acc(p, 2)
                 index == unwrap(index_obj)
             IN  IF ~obj.boxed THEN fail(p, Err("InvalidType", << "ELEM" >>))
                 ELSE IF ~IsAddr(p.heap, obj.v) THEN fail(p, WildRead)
                 ELSE LET length == LlengthOf(p.heap, obj.v)
                          o == ObjAt(p.heap, obj.v)
                      IN  IF index < 0 \/ index >= length
                          THEN fail(p, Err("OutOfBoundsAccess", << index, length >>))
                          ELSE IF o.kind = "ARRAY"
                          THEN push(p, new_boxed(rtUnbox(o.contents[index + 1])))
                          ELSE push(p, new_boxed(o.contents[index + 1]))

\* Instruction::ARRAY
eval_ARRAY(st, instr) ==
    LET p == pop(st)
    IN  IF p.err # Ok THEN p
        ELSE LET obj == Acc(p, 1)
             IN  IF ~obj.boxed THEN push(p, new_boxed(0))
                 ELSE IF ~IsAddr(p.heap, obj.v) THEN fail(p, WildRead)
                 ELSE IF ObjAt(p.heap, obj.v).kind # "ARRAY" THEN push(p, new_boxed(0))
                 ELSE push(p, new_boxed(b2i(LlengthOf(p.heap, obj.v) = instr.a)))

\* Interpreter::eval: the match on the instruction; every variant without an
\* arm panics as unimplemented
eval(st, instr, bf, input) ==
    CASE instr.op \in {"NOP", "LINE"} -> st
      [] instr.op = "BINOP" -> eval_BINOP(st, instr)
      [] instr.op = "CONST" -> push(st, new_boxed(instr.a))
      [] instr.op = "STRING" -> eval_STRING(st, instr, bf.string_table)
      [] instr.op = "SEXP" -> eval_SEXP(st, instr, bf.string_table)
      [] instr.op = "JMP" -> eval_JMP(st, instr, Len(bf.code_section))
      [] instr.op = "STA" -> eval_STA(st)
      [] instr.op = "STI" -> fail(st, Panic)
      [] instr.op = "BEGIN" -> eval_BEGIN(st, instr)
      [] instr.op \in {"END", "RET"} -> eval_END(st)
      [] instr.op = "STORE" -> eval_STORE(st, instr)
      [] instr.op = "LOAD" -> eval_LOAD(st, instr)
      [] instr.op = "DROP" -> pop(st)
      [] instr.op = "DUP" -> LET p == pop(st)
                             IN  IF p.err # Ok THEN p
                                 ELSE push(push(p, Acc(p, 1)), Acc(p, 1))
      [] instr.op = "SWAP" -> LET p == pop(pop(st))
                              IN  IF p.err # Ok THEN p
                                  ELSE push(push(p, Acc(p, 1)), Acc(p, 2))
      [] instr.op = "CALL" -> eval_CALL(st, instr)
      [] instr.op = "CALLB" -> eval_CALLB(st, instr, input)
      [] instr.op = "CJMP" -> eval_CJMP(st, instr)
      [] instr.op = "ELEM" -> eval_ELEM(st)
      [] instr.op = "ARRAY" -> eval_ARRAY(st, instr)
      [] OTHER -> fail(st, Panic)


(***************************************************************************)
(* Input images                                                            *)
(***************************************************************************)

I32(x) == to_le_bytes(x)

RECURSIVE Flatten(_)
Flatten(seqs) == IF seqs = << >> THEN << >> ELSE Head(seqs) \o Flatten(Tail(seqs))

\* Encodings of the instructions, by the opcode table
aNOP == << 0 >>
aBINOP(op) == << op >>
aCONST(v) == << 16 >> \o I32(v)
aSTRING(i) == << 17 >> \o I32(i)
aSEXP(s, n) == << 18 >> \o I32(s) \o I32(n)
aSTI == << 19 >>
aSTA == << 20 >>
aJMP(o) == << 21 >> \o I32(o)
aEND == << 22 >>
aRET == << 23 >>
aDROP == << 24 >>
aDUP == << 25 >>
aSWAP == << 26 >>
aELEM == << 27 >>
aLOAD(rel, i) == << 32 + rel >> \o I32(i)
aSTORE(rel, i) == << 64 + rel >> \o I32(i)
aCJMP(kind, o) == << 80 + kind >> \o I32(o)
aBEGIN(a, n) == << 82 >> \o I32(a) \o I32(n)
aCLOSURE(o, n) == << 84 >> \o I32(o) \o I32(n)
aCAPTURE(rel, i) == << rel >> \o I32(i)
aCALL(o, n) == << 86 >> \o I32(o) \o I32(n)
aARRAY(n) == << 88 >> \o I32(n)
aLINE(n) == << 90 >> \o I32(n)
aCALLB(b) == << 112 + b >>
aBarray(n) == << 116 >> \o I32(n)

\* The image layout: S, globals, P, P pairs, the string table, the code
Image(strtab, globals, pubs, code) ==
    I32(Len(strtab)) \o I32(globals) \o I32(Len(pubs))
      \o Flatten([k \in 1..Len(pubs) |-> I32(pubs[k][1]) \o I32(pubs[k][2])])
      \o strtab \o code

\* "main" and its terminator
Main == << 109, 97, 105, 110, 0 >>

\* A program with the single public symbol main at offset 0
Prog(globals, instrs) == Image(Main, globals, << << 0, 0 >> >>, Flatten(instrs))


\* Bounds of the exploration
MaxSteps == 24
MaxTagLen == 12
MaxArity == 2

\* Constant + add + write
PAdd ==
    Prog(1, << aBEGIN(2, 0), aCONST(2), aCONST(3), aBINOP(ADD), aSTORE(Global, 0),
               aDROP, aLOAD(Global, 0), aCALLB(Lwrite), aEND >>)

\* A JMP (offset 14 of a 20-byte code section), and a JMP that is the first
\* instruction of a 6-byte code section
PJmp(o) == Prog(0, << aBEGIN(2, 0), aCONST(0), aJMP(o), aEND >>)
PJmp0(o) == Prog(0, << aJMP(o), aEND >>)

\* A CJMP at offset 14 of a 25-byte code section
PCjmp(kind, o) == Prog(0, << aBEGIN(2, 0), aCONST(0), aCJMP(kind, o), aCONST(0), aEND >>)

\* A CLOSURE of the given arity followed by its capture records, each of
\* relation rel
PClosure(arity, rel) ==
    Prog(0, << aBEGIN(2, 1), aCLOSURE(0, arity) >>
            \o [k \in 1..arity |-> aCAPTURE(rel, 0)]
            \o << aDROP, aCONST(0), aEND >>)

\* A loop that leaves one more value on the stack on every round
PLoop == Prog(0, << aBEGIN(2, 0), aCONST(1), aCONST(1), aCJMP(ISNONZERO, 9), aEND >>)

\* main returning with RET
PRet == Prog(0, << aBEGIN(2, 0), aCONST(0), aRET >>)

\* main calling a one-argument function at offset 24 that returns its
\* argument, through END or through RET
PCall(ret) ==
    Prog(0, << aBEGIN(2, 0), aCONST(5), aCALL(24, 1), aEND,
               aBEGIN(1, 0), aLOAD(Arg, 0), ret >>)

\* main calling, above one operand, a function of a arguments and n locals
\* that returns the sum of 9 and its last argument, or 9
PCallN(a, n, ret) ==
    Prog(0, << aBEGIN(2, 0), aCONST(4) >>
            \o [k \in 1..a |-> aCONST(10 + k)]
            \o << aCALL(25 + 5 * a, a), aDROP, aEND, aBEGIN(a, n), aCONST(9) >>
            \o (IF a > 0 THEN << aLOAD(Arg, a - 1), aBINOP(ADD) >> ELSE << >>)
            \o << ret >>)

\* main and a second public function at offset 15 that holds the instruction
\* x after its BEGIN a n
PSecond(a, n, x) ==
    Image(Main, 0, << << 0, 0 >>, << 0, 15 >> >>,
          Flatten(<< aBEGIN(2, 0), aCONST(0), aEND, aBEGIN(a, n), x, aEND >>))

\* main and a second public symbol at offset 15 that holds the instruction x
\* without a BEGIN before it
PBody(x) ==
    Image(Main, 0, << << 0, 0 >>, << 0, 15 >> >>,
          Flatten(<< aBEGIN(2, 0), aCONST(0), aEND, x, aCONST(0), aEND >>))

\* Barray 0 ; DUP ; CONST 1 ; ELEM
PElemOob ==
    Prog(0, << aBEGIN(2, 0), aBarray(0), aDUP, aCONST(1), aELEM, aEND >>)

\* CONST 2 ; CONST 3 ; Barray 2 ; CONST i ; ELEM
PElem(i) ==
    Prog(0, << aBEGIN(2, 0), aCONST(2), aCONST(3), aBarray(2), aCONST(i), aELEM, aEND >>)

\* ELEM on an argument of main, which is not an aggregate
PElemType == Prog(0, << aBEGIN(2, 0), aLOAD(Arg, 0), aCONST(0), aELEM, aEND >>)

\* STORE rel i in a frame of two arguments and one local, with or without an
\* operand beneath the stored value
PStore(rel, i, extra) ==
    Prog(0, << aBEGIN(2, 1) >>
            \o (IF extra THEN << aCONST(5) >> ELSE << >>)
            \o << aCONST(7), aSTORE(rel, i) >>
            \o (IF extra THEN << aDROP >> ELSE << >>)
            \o << aEND >>)

\* STORE rel i ; LOAD rel i in a frame of two arguments and two locals, with
\* two globals
PStoreLoad(rel, i) ==
    Prog(2, << aBEGIN(2, 2), aCONST(7), aSTORE(rel, i), aLOAD(rel, i), aBINOP(ADD),
               aEND >>)

\* 6 op r
PBinop(op, r) == Prog(0, << aBEGIN(2, 0), aCONST(6), aCONST(r), aBINOP(op), aEND >>)

\* A SEXP without members whose tag name is len bytes long
PTag(len) ==
    Image([k \in 1..(len + 1) |-> IF k <= len THEN 97 ELSE 0], 0, << << 0, 0 >> >>,
          Flatten(<< aBEGIN(2, 0), aSEXP(0, 0), aEND >>))

\* Lread ; Lwrite
PRead == Prog(0, << aBEGIN(2, 0), aCALLB(Lread), aCALLB(Lwrite), aEND >>)

\* A short image and every prefix of it
PShort == Prog(0, << aBEGIN(2, 0), aCONST(0), aEND >>)

Prefixes(q) == {SubSeq(q, 1, n) : n \in 0..Len(q)}

\* The pairs (l, r) the thirteen operators are run on
BinopOperands == {<< 6, 4 >>, << -7, 2 >>, << 7, -2 >>, << 0, 5 >>, << 3, 3 >>, << 0, 0 >>}

\* The files the command-line programs are run on
Sources ==
    {PAdd, PLoop, PRet, PCall(aEND), PCall(aRET), PElemOob, PElemType, PRead}
    \cup {PJmp(o) : o \in {-1, 19, 20, 21}}
    \cup {PJmp0(o) : o \in {-1, 5, 6}}
    \cup {PCjmp(kind, o) : kind \in {ISZERO, ISNONZERO}, o \in {-1, 19, 25}}
    \cup {PClosure(arity, rel) : arity \in 0..MaxArity, rel \in {Local, 9}}
    \cup {PSecond(0, 65536, aSEXP(0, n)) : n \in {65534, 65535, 65536}}
    \cup {PSecond(0, 1, aARRAY(n)) : n \in {65534, 65535, 65536}}
    \cup {PSecond(0, 1, aCLOSURE(0, n)) : n \in {MAX_CAPTURES - 1, MAX_CAPTURES}}
    \cup {PSecond(a, 0, aNOP) : a \in {65535, 65536}}
    \cup {PCallN(a, n, ret) : a \in 0..MaxArity, n \in 0..MaxArity, ret \in {aEND, aRET}}
    \cup {PSecond(0, n, x) : n \in {MAX_OPERAND_STACK_SIZE - 6, MAX_OPERAND_STACK_SIZE},
                             x \in {aNOP, aCONST(0)}}
    \cup {PBody(x) : x \in {aDROP, aBINOP(ADD), aELEM, aSTI, aSTA, aSEXP(0, 3),
                             aBarray(2), aCJMP(ISZERO, 15), aDUP}}
    \cup {PElem(i) : i \in {-1, 0, 1, 2}}
    \cup {PStore(rel, i, extra) : rel \in {Arg, Local}, i \in 0..3, extra \in BOOLEAN}
    \cup {PBinop(op, r) : op \in {DIV, MOD, SUB}, r \in {0, 4}}
    \cup {PStoreLoad(rel, i) : rel \in {Global, Local, Arg}, i \in 0..1}
    \cup {PStoreLoad(Global, i) : i \in {-1, 2, 3}}
    \cup {Prog(2, << aBEGIN(2, 0), aLOAD(Global, i), aEND >>) : i \in -1..3}
    \cup {Prog(2, << aBEGIN(2, 0), aCONST(0), aCJMP(ISZERO, 24), aJMP(9), x, aEND >>) :
             x \in {aSTORE(Global, 2), aLOAD(Global, 2), aLOAD(Global, 1)}}
    \cup {Prog(1, << << byte >>, I32(1), I32(2), aEND >>) : byte \in 0..255}
    \cup {Prog(0, << aBEGIN(2, 1), aCLOSURE(0, 2) >> \o [k \in 1..n |-> aCAPTURE(Local, 0)]) :
             n \in 0..1}
    \cup {Prog(0, << aBEGIN(2, 0), aCONST(lr[1]), aCONST(lr[2]), aBINOP(op), aEND >>) :
             op \in ADD..OR, lr \in BinopOperands}
    \cup {Prog(0, << aBEGIN(2, 0), aCONST(2) >> \o agg \o << aCONST(i), aELEM, aEND >>) :
             agg \in {<< aBarray(0), aBarray(2) >>, << aSEXP(0, 1) >>, << aSTRING(0) >>},
             i \in -1..2}
    \cup {Prog(0, << aBEGIN(2, 0), aCONST(7) >> \o [k \in 1..n |-> aCONST(k + 1)]
                    \o << aBarray(n), aDUP, aCALLB(Llength), aEND >>) : n \in 0..MaxArity}
    \cup {Prog(0, << aBEGIN(2, 1), x, aCJMP(kind, 19 + Len(x)), aCONST(0), aEND >>) :
             x \in {aCONST(-1), aCONST(0), aCONST(1), aCONST(2), aLOAD(Local, 0), aNOP,
                    aBarray(0)},
             kind \in {ISZERO, ISNONZERO}}
    \cup {Image(tab, 0, << << 0, 0 >> >>, Flatten(<< aBEGIN(2, 0), aSTRING(i), aEND >>)) :
             tab \in {Main, << 109, 97 >>, << 0, 97, 0 >>}, i \in -1..6}
    \cup {Prog(0, << aBEGIN(2, 0) >> \o [k \in 1..n |-> aDROP] \o << ret >>) :
             n \in 0..3, ret \in {aEND, aRET}}
    \cup {Prog(0, [k \in 1..n |-> aDROP] \o << aEND >>) : n \in {0, 2, 3, 6, 7, 8, 9}}
    \cup {Prog(0, << aBEGIN(a, 0), aEND >>) : a \in 6..9}
    \cup {Prog(2, << aBEGIN(2, 0), aCONST(1), aCONST(2), aCONST(3), << byte >>, I32(1), I32(2),
                     aEND >>) : byte \in {b \in 0..116 : OpcodeOf(b).op # "INVALID"}}
    \cup {Prog(0, << aBEGIN(2, 0), aCALL(o, 0), aJMP(9), aEND >>) : o \in {0, 9}}
    \cup {Prog(0, << aBEGIN(2, 1), aCONST(7), aLOAD(rel, i), aEND >>) :
             rel \in {Arg, Local}, i \in 1..3}
    \cup {PTag(len) : len \in 0..MaxTagLen}
    \cup Prefixes(PShort)

\* The integers Lread may return
ReadInputs == {0, 3}


(***************************************************************************)
(* The command-line programs                                               *)
(***************************************************************************)

VARIABLES
    mode,          \* "lamarifyer" (src/lamarifyer/src/main.rs) or "lama_rs" (src/src/main.rs)
    source,        \* the bytes of the file
    pc,            \* the position of main
    bf,            \* the parsed Bytefile
    outcome,       \* how main ends: "ok", "err" or "panic"
    exit_code,     \* the exit status of the process, -1 while it runs
    worklist,      \* get_reachables: the walking queue
    reachables,    \* get_reachables: the offsets whose bit is set in reachable_offsets
    targets,       \* get_reachables: the offsets whose bit is set in target_offsets
    addresses,     \* verify: the reachable addresses in ascending order
    vidx,          \* verify: the position of the for loop in addresses
    stack_depths,  \* verify: the per-offset depth table
    current_stack_depth,
    current_function_begin_offset,
    decoder_ip,    \* the cursor of the verifier's decoder
    verify_result, \* Ok, or the error verify returned
    image,         \* the Bytefile the interpreter owns
    operand_stack,
    frame_pointer,
    ip,
    globals,
    heap,
    out,           \* the integers written to stdout
    run_result,    \* Ok, or the error run returned
    fetched,       \* the most recent fetch: who decoded, where, what, and the cursor after
    verified,      \* the most recent call of verify_instruction and its result
    last,          \* the most recent call of eval, the state it found and its result
    steps,         \* the number of instructions the interpreter fetched
    fn_slots,      \* the stack_depths slots of the functions being executed
    calls,         \* the CALLs not returned from: the state each found
    gc,            \* the bounds of the operand stack published to the collector
    probe          \* a runtime primitive applied on its own: the word given, the results

vars ==
    << mode, source, pc, bf, outcome, exit_code, worklist, reachables, targets,
       addresses, vidx, stack_depths, current_stack_depth,
       current_function_begin_offset, decoder_ip, verify_result, image,
       operand_stack, frame_pointer, ip, globals, heap, out, run_result,
       fetched, verified, last, steps, fn_slots, calls, gc, probe >>

walkerVars == << worklist, reachables, targets >>

verifierVars ==
    << addresses, vidx, stack_depths, current_stack_depth,
       current_function_begin_offset, decoder_ip >>

interpVars == << image, operand_stack, frame_pointer, ip, globals, heap, out, gc >>

histVars == << fetched, verified, last, steps, fn_slots, calls >>

\* No primitive applied yet
NoProbe == [fn |-> "none", word |-> << >>, box |-> << >>, unbox |-> << >>]

\* Interpreter::new: the synthetic pre-frame of the emulated call to main
Interpreter_new(bytefile) ==
    [IState(Ok,
            << new_empty, new_unboxed(2), new_empty, new_empty,
               new_empty, new_empty, new_empty, new_empty >>,
            0, 0,
            [k \in 1..Max(bytefile.global_area_size, 0) |-> new_empty],
            << >>, << >>)
       EXCEPT !.gc = Vec_of(8)]

NoFetch == [who |-> "none", at |-> 0, instr |-> NoInstr, end |-> 0, err |-> "none"]

NoVerified == [instr |-> NoInstr, err |-> Ok, end |-> 0, before |-> 0]

NoCall == [some |-> FALSE, stack |-> << >>, frame_pointer |-> 0, next |-> 0]

NoEval == [instr |-> NoInstr, err |-> Ok, acc |-> << >>, stack |-> << >>,
           frame_pointer |-> 0, ip |-> 0, globals |-> << >>, call |-> NoCall,
           prev |-> NoInstr]

RECURSIVE SortedSeq(_)
\* iter_ones: the members of a set of offsets in ascending order
SortedSeq(S) ==
    Strict(LAMBDA T :
               IF T = {} THEN << >>
               ELSE Strict(LAMBDA m : << m >> \o SortedSeq(T \ {m}),
                           CHOOSE x \in T : \A y \in T : x <= y),
           S)

Init ==
    /\ mode \in {"lamarifyer", "lama_rs"}
    /\ source \in Sources
    /\ pc = "parse"
    /\ bf = NoBytefile("none")
    /\ outcome = "ok"
    /\ exit_code = -1
    /\ worklist = << >>
    /\ reachables = {}
    /\ targets = {}
    /\ addresses = << >>
    /\ vidx = 1
    /\ stack_depths = << >>
    /\ current_stack_depth = 0
    /\ current_function_begin_offset = 9
    /\ decoder_ip = 0
    /\ verify_result = Ok
    /\ image = NoBytefile("none")
    /\ operand_stack = << >>
    /\ frame_pointer = 0
    /\ ip = 0
    /\ globals = << >>
    /\ heap = << >>
    /\ out = << >>
    /\ run_result = Ok
    /\ fetched = NoFetch
    /\ verified = NoVerified
    /\ last = NoEval
    /\ steps = 0
    /\ fn_slots = << >>
    /\ calls = << >>
    /\ gc = NoGc
    /\ probe = NoProbe

\* main leaves with the error e of the verifier: `?` for an Err, unwinding
\* for a panic
VerifierFails(e) ==
    /\ verify_result' = e
    /\ outcome' = IF e = Panic THEN "panic" ELSE "err"
    /\ pc' = "exit"

\* Interpreter::new(bytefile) in main
StartInterpreter(bytefile) ==
    LET st == Interpreter_new(bytefile)
    IN  /\ image' = bytefile
        /\ operand_stack' = st.operand_stack
        /\ frame_pointer' = st.frame_pointer
        /\ ip' = st.ip
        /\ globals' = st.globals
        /\ heap' = st.heap
        /\ out' = st.out
        /\ gc' = st.gc

\* Bytefile::parse(content) in main, and what main does with its result
Parse ==
    /\ pc = "parse"
    /\ bf' = parse(source)
    /\ IF bf'.err # "none"
       THEN /\ outcome' = "err"
            /\ pc' = "exit"
            /\ UNCHANGED << walkerVars, interpVars >>
       ELSE IF mode = "lamarifyer"
       THEN /\ pc' = "walk"
            /\ worklist' = [k \in 1..Len(bf'.public_symbols) |-> bf'.public_symbols[k][2]]
            /\ UNCHANGED << outcome, reachables, targets, interpVars >>
       ELSE /\ pc' = "run"
            /\ StartInterpreter(bf')
            /\ UNCHANGED << outcome, walkerVars >>
    /\ UNCHANGED << probe, mode, source, exit_code, verifierVars, verify_result,
                    run_result, histVars >>


\* A walk that would take no offset for visited
never_visited(reachable_offsets, addr) == FALSE

\* reachable_offsets[addr], the test that skips a visited offset
is_visited(reachable_offsets, addr) == addr \in reachable_offsets

\* One iteration of the while loop of Verifier::get_reachables.  Indexing a
\* bit vector outside its length panics.
WalkStep ==
    /\ pc = "walk"
    /\ worklist # << >>
    /\ \E offset \in {Head(worklist)}, rest \in {Tail(worklist)} :
         IF ~InBounds(offset, Len(bf.code_section))
         THEN /\ VerifierFails(Panic)
              /\ worklist' = rest
              /\ UNCHANGED << reachables, targets, fetched >>
         ELSE IF is_visited(reachables, offset)
         THEN /\ worklist' = rest
              /\ UNCHANGED << reachables, targets, fetched, verify_result, outcome, pc >>
         ELSE \E d \in {Decoder_fetch(bf.code_section, offset)} :
              LET instr == d.instr
                  enqueued ==
                      (IF is_call(instr) THEN << instr.a >> ELSE << >>)
                      \o (IF instr.op = "CLOSURE" THEN << instr.a >> ELSE << >>)
                      \o (IF is_jump(instr) THEN << instr.a >> ELSE << >>)
                      \o (IF ~is_terminal(instr) THEN << d.ip >> ELSE << >>)
              IN  /\ reachables' = reachables \cup {offset}
                  /\ fetched' = [who |-> "walker", at |-> offset, instr |-> instr,
                                 end |-> d.ip, err |-> d.err]
                  /\ IF d.err # "none"
                     THEN /\ VerifierFails(Err("DecoderError", << d.err >>))
                          /\ worklist' = rest
                          /\ UNCHANGED targets
                     ELSE IF is_jump(instr) /\ ~InBounds(instr.a, Len(bf.code_section))
                     THEN /\ VerifierFails(Panic)
                          /\ worklist' = rest \o << instr.a >>
                          /\ UNCHANGED targets
                     ELSE /\ worklist' = rest \o enqueued
                          /\ targets' = IF is_jump(instr) THEN targets \cup {instr.a}
                                        ELSE targets
                          /\ UNCHANGED << verify_result, outcome, pc >>
    /\ UNCHANGED << probe, mode, source, bf, exit_code, verifierVars, interpVars,
                    run_result, verified, last, steps, fn_slots, calls >>

\* The end of get_reachables and the head of Verifier::verify: the addresses
\* are collected and the decoder is moved to the first of them, which panics
\* when there is none
WalkDone ==
    /\ pc = "walk"
    /\ worklist = << >>
    /\ addresses' = SortedSeq(reachables)
    /\ IF reachables = {}
       THEN /\ VerifierFails(Panic)
            /\ UNCHANGED << stack_depths, decoder_ip >>
       ELSE /\ stack_depths' = [k \in 0..(Len(bf.code_section) - 1) |-> 0]
            /\ decoder_ip' = addresses'[1]
            /\ pc' = "verify"
            /\ UNCHANGED << verify_result, outcome >>
    /\ UNCHANGED << probe, mode, source, bf, exit_code, walkerVars, vidx,
                    current_stack_depth, current_function_begin_offset,
                    interpVars, run_result, histVars >>

\* One iteration of the for loop of Verifier::verify that does not break
VerifyStep ==
    /\ pc = "verify"
    /\ vidx <= Len(addresses)
    /\ decoder_ip # Len(bf.code_section) - 1
    /\ \E d \in {Decoder_fetch(bf.code_section, decoder_ip)} :
       \E v \in {verify_instruction(
                    VState(Ok, stack_depths, current_stack_depth,
                           current_function_begin_offset, d.ip),
                    d.instr, d.ip, Len(bf.code_section), bf.string_table,
                    bf.global_area_size)} :
           /\ fetched' = [who |-> "verifier", at |-> decoder_ip, instr |-> d.instr,
                          end |-> d.ip, err |-> d.err]
           /\ IF d.err # "none"
              THEN /\ VerifierFails(Err("DecoderError", << d.err >>))
                   /\ decoder_ip' = d.ip
                   /\ UNCHANGED << vidx, stack_depths, current_stack_depth,
                                   current_function_begin_offset, verified >>
              ELSE /\ verified' = [instr |-> d.instr, err |-> v.err, end |-> d.ip,
                                    before |-> current_stack_depth]
                   /\ stack_depths' = v.stack_depths
                   /\ current_stack_depth' = v.current_stack_depth
                   /\ current_function_begin_offset' = v.current_function_begin_offset
                   /\ decoder_ip' = v.ip
                   /\ IF v.err # Ok
                      THEN /\ VerifierFails(v.err)
                           /\ UNCHANGED vidx
                      ELSE /\ vidx' = vidx + 1
                           /\ UNCHANGED << verify_result, outcome, pc >>
    /\ UNCHANGED << probe, mode, source, bf, exit_code, walkerVars, addresses,
                    interpVars, run_result, last, steps, fn_slots, calls >>

\* The for loop of verify ends, by exhaustion or by its break, and verify
\* returns Ok
VerifyDone ==
    /\ pc = "verify"
    /\ vidx > Len(addresses) \/ decoder_ip = Len(bf.code_section) - 1
    /\ pc' = "patch"
    /\ UNCHANGED << probe, mode, source, bf, outcome, exit_code, walkerVars, verifierVars,
                    verify_result, interpVars, run_result, histVars >>

\* main after verify: the content is parsed again, the recorded depths are
\* written into the code section and the interpreter is constructed
Patch ==
    /\ pc = "patch"
    /\ \E new_bytefile \in {parse(source)} :
       \E r \in {patch_from(new_bytefile.code_section, stack_depths, 0)} :
           IF r.err # Ok
           THEN /\ outcome' = "panic"
                /\ pc' = "exit"
                /\ UNCHANGED interpVars
           ELSE /\ StartInterpreter([new_bytefile EXCEPT !.code_section = r.code])
                /\ pc' = "run"
                /\ UNCHANGED outcome
    /\ UNCHANGED << probe, mode, source, bf, exit_code, walkerVars, verifierVars,
                    verify_result, run_result, histVars >>


\* The argument count the interpreter of lamarifyer takes from the first
\* immediate of a BEGIN of the patched image: the low half of the word, the
\* upper 16 bits being the depth hint
begin_args(word) == word % 65536

\* The instruction the interpreter evaluates for a decoded one
Interpreter_instr(instr) ==
    IF mode = "lamarifyer" /\ instr.op \in {"BEGIN", "CBEGIN"}
    THEN [instr EXCEPT !.a = begin_args(@)]
    ELSE instr

\* How main ends after run returned the error e: the Err is printed and
\* dropped, a panic unwinds, a read outside the heap does either
RunFails(e) ==
    /\ run_result' = e
    /\ pc' = "exit"
    /\ outcome' \in (CASE e = Panic -> {"panic"}
                       [] e = WildRead -> {"panic", "ok"}
                       [] OTHER -> {"ok"})

\* One iteration of the while loop of Interpreter::run; ip is a usize, so a
\* word below zero stored by CJMP is not less than the length
RunStep ==
    /\ pc = "run"
    /\ InBounds(ip, Len(image.code_section))
    /\ steps < MaxSteps
    /\ \E input \in ReadInputs, d \in {Interpreter_fetch(image.code_section, ip)} :
         \E instr \in {Interpreter_instr(d.instr)} :
         \E st \in {eval([IState(Ok, operand_stack, frame_pointer, d.ip, globals, heap, out)
                             EXCEPT !.gc = gc],
                          instr, image, input)} :
             /\ fetched' = [who |-> "interpreter", at |-> ip, instr |-> d.instr,
                            end |-> d.ip, err |-> d.err]
             /\ steps' = steps + 1
             /\ IF d.err # "none"
                THEN /\ RunFails(IF d.err = "panic" THEN Panic ELSE Err(d.err, << >>))
                     /\ ip' = d.ip
                     /\ UNCHANGED << operand_stack, frame_pointer, globals, heap, out,
                                     gc, last, fn_slots, calls >>
                ELSE /\ operand_stack' = st.operand_stack
                     /\ frame_pointer' = st.frame_pointer
                     /\ ip' = st.ip
                     /\ globals' = st.globals
                     /\ heap' = st.heap
                     /\ gc' = st.gc
                     /\ out' = st.out
                     /\ last' = [instr |-> instr, err |-> st.err, acc |-> st.acc,
                                 stack |-> operand_stack, frame_pointer |-> frame_pointer,
                                 ip |-> d.ip, globals |-> globals, prev |-> last.instr,
                                 call |-> IF instr.op \in {"END", "RET"} /\ calls # << >>
                                          THEN calls[Len(calls)] ELSE NoCall]
                     /\ calls' =
                            IF st.err # Ok THEN calls
                            ELSE IF instr.op = "CALL"
                            THEN Append(calls, [some |-> TRUE, stack |-> operand_stack,
                                                frame_pointer |-> frame_pointer,
                                                next |-> d.ip])
                            ELSE IF instr.op \in {"END", "RET"} /\ calls # << >>
                            THEN SubSeq(calls, 1, Len(calls) - 1)
                            ELSE calls
                     /\ fn_slots' =
                            IF st.err # Ok THEN fn_slots
                            ELSE IF instr.op = "BEGIN" THEN Append(fn_slots, d.ip)
                            ELSE IF instr.op \in {"END", "RET"} /\ fn_slots # << >>
                            THEN SubSeq(fn_slots, 1, Len(fn_slots) - 1)
                            ELSE fn_slots
                     /\ IF st.err # Ok
                        THEN RunFails(st.err)
                        ELSE IF instr.op = "END" /\ st.frame_pointer = 0
                        THEN /\ pc' = "exit"
                             /\ UNCHANGED << run_result, outcome >>
                        ELSE UNCHANGED << pc, run_result, outcome >>
    /\ UNCHANGED << probe, mode, source, bf, exit_code, walkerVars, verifierVars,
                    verify_result, image, verified >>

\* The while condition of Interpreter::run fails and run returns Ok
RunDone ==
    /\ pc = "run"
    /\ ~InBounds(ip, Len(image.code_section))
    /\ pc' = "exit"
    /\ UNCHANGED << probe, mode, source, bf, outcome, exit_code, walkerVars, verifierVars,
                    verify_result, interpVars, run_result, histVars >>

\* The process ends: status 0 when main returns Ok(()), 1 when it returns an
\* Err, 101 when it panics
Exit ==
    /\ pc = "exit"
    /\ exit_code' = (CASE outcome = "ok" -> 0
                       [] outcome = "err" -> 1
                       [] OTHER -> 101)
    /\ pc' = "done"
    /\ UNCHANGED << probe, mode, source, bf, outcome, walkerVars, verifierVars,
                    verify_result, interpVars, run_result, histVars >>

Next ==
    \/ Parse
    \/ WalkStep
    \/ WalkDone
    \/ VerifyStep
    \/ VerifyDone
    \/ Patch
    \/ RunStep
    \/ RunDone
    \/ Exit

Spec == Init /\ [][Next]_vars

\* main up to the return of get_reachables
WalkNext ==
    \/ Parse
    \/ WalkStep
    \/ WalkDone

\* The walk under the scheduling of a sequential program: the while loop of
\* get_reachables takes its next iteration, and verify goes on when it ends
SpecWalk == Init /\ [][WalkNext]_vars /\ WF_vars(WalkStep) /\ WF_vars(WalkDone)

(***************************************************************************)
(* The runtime primitives applied to machine words                         *)
(***************************************************************************)

\* The limbs the words are made of: the ends of the 16-bit range and the
\* values around bits 14 and 15
Limbs == {0, 1, 16383, 16384, 32767, 32768, 49151, 49152, 65535}

\* The i64 words the primitives are applied to
Words == {<< a, b, c, d >> : a \in Limbs, b \in {0, 65535}, c \in {0, 65535}, d \in Limbs}

\* No program runs: the variables of the command-line programs stay as
\* they start
WordsInit ==
    /\ Init
    /\ mode = "lama_rs"
    /\ source = PAdd

\* Object::new_boxed(x) followed by Object::unwrap, on the word x
BoxWord ==
    /\ \E x \in Words :
          probe' = [fn |-> "rtBox", word |-> x, box |-> rtBox_i64(x),
                    unbox |-> rtUnbox_i64(rtBox_i64(x))]
    /\ UNCHANGED << mode, source, pc, bf, outcome, exit_code, walkerVars, verifierVars,
                    verify_result, interpVars, run_result, histVars >>

WordsNext == BoxWord

SpecWords == WordsInit /\ [][WordsNext]_vars


(***************************************************************************)
(* Properties                                                              *)
(***************************************************************************)

\* The reachable offsets that hold a JMP or CJMP whose offset is negative or
\* not below the length of the code section
BadJumps ==
    {o \in reachables :
        LET d == Decoder_fetch(bf.code_section, o)
        IN  d.err = "none" /\ is_jump(d.instr)
            /\ ~InBounds(d.instr.a, Len(bf.code_section))}

\* C1: when a reachable JMP or CJMP has an offset that is negative or not
\* below the length of the code section, verify returns
\* InvalidJumpOffset(ip, offset, code_len) for such a jump: the reachability
\* walk does not abort the process and the interpreter is never started.
C1_BadJumpIsInvalidJumpOffset ==
    (mode = "lamarifyer" /\ pc \in {"exit", "done"} /\ BadJumps # {})
        => /\ verify_result.kind = "InvalidJumpOffset"
           /\ \E o \in BadJumps :
                 verify_result.args[2] = Decoder_fetch(bf.code_section, o).instr.a
           /\ verify_result.args[3] = Len(bf.code_section)
           /\ outcome = "err"
           /\ steps = 0

\* The code section a fetch read from
FetchedFrom == IF fetched.who = "interpreter" THEN image.code_section ELSE bf.code_section

\* C2: decoding CLOSURE with a captures moves the cursor by exactly 9 + 5a
\* bytes (the opcode, two words and a records of a relation byte and a
\* word), and a capture record whose relation byte is outside 0..3 is a
\* decode-time error.
C2_ClosureDecodeConsumesCaptures ==
    (fetched.instr.op = "CLOSURE" /\ fetched.err = "none" /\ fetched.instr.b >= 0)
        => LET consumed == fetched.end - fetched.at - 9
               present == Min(fetched.instr.b,
                              (Len(FetchedFrom) - fetched.at - 9) \div 5)
           IN  /\ consumed % 5 = 0
               /\ consumed \div 5 = fetched.instr.b
               /\ \A k \in 1..present :
                     FetchedFrom[fetched.at + 9 + 5 * (k - 1) + 1] \in 0..3

\* The height of the operand stack above the base of the running frame
HeightFromFrameBase == Len(operand_stack) - (frame_pointer + 1)

\* C3: for every program the verifier accepts, while a function F runs the
\* height of the interpreter's stack measured from F's frame base is at
\* least 0 and at most the maximum depth the verifier recorded for F.
C3_HeightWithinRecordedDepth ==
    (mode = "lamarifyer" /\ pc = "run" /\ verify_result = Ok /\ run_result = Ok
     /\ fn_slots # << >>)
        => /\ HeightFromFrameBase >= 0
           /\ HeightFromFrameBase <= stack_depths[fn_slots[Len(fn_slots)]]

\* C4: the run loop stops immediately after an END or a RET that restores
\* the saved frame pointer 0; RET stops it exactly as END does.
C4_ReturnToFrameZeroStops ==
    (last.instr.op \in {"END", "RET"} /\ last.err = Ok /\ frame_pointer = 0)
        => pc # "run"

\* An instruction whose count equals the verifier's limit for it
AtLimit(instr) ==
    \/ instr.op = "SEXP" /\ instr.b = MAX_SEXP_MEMBERS
    \/ instr.op = "ARRAY" /\ instr.a = MAX_ARRAY_MEMBERS
    \/ instr.op = "CLOSURE" /\ instr.b = MAX_CAPTURES
    \/ instr.op \in {"BEGIN", "CBEGIN"} /\ instr.a = MAX_PARAMS

\* C5: the verifier's count limits are inclusive: SEXP with 0xFFFF members,
\* ARRAY with 0xFFFF elements, CLOSURE with MAX_CAPTURES captures and BEGIN
\* with 0xFFFF arguments pass the count checks.
C5_LimitsAreInclusive ==
    AtLimit(verified.instr)
        => verified.err.kind \notin {"TooMuchMembers", "TooManyCaptures", "InvalidBeginArgs"}

\* C6: the process exits with status 0 only when parsing, verification and
\* the run all succeeded; every failure, a runtime error returned by run
\* included, gives a non-zero status.
C6_ExitZeroOnlyOnSuccess ==
    pc = "done"
        => (exit_code = 0
              <=> (bf.err = "none" /\ verify_result = Ok /\ run_result = Ok
                   /\ outcome = "ok"))

\* C7: parse fails with NoCodeSection when no byte follows the header, the
\* public symbols and the string table, fails with UnexpectedEOF when the
\* input ends inside them, and returns a Bytefile only with a code section
\* that is not empty.
C7_ParseRequiresCode ==
    pc # "parse"
        => LET n == Len(source)
               tables == IF n >= 12 THEN 12 + 8 * word_at(source, 8) + word_at(source, 0)
                         ELSE 12
           IN  /\ (n < tables \/ n < 12) => bf.err = "UnexpectedEOF"
               /\ (n >= 12 /\ n = tables) => bf.err = "NoCodeSection"
               /\ bf.err = "none" => bf.code_section # << >>

\* The frame the most recent eval found
LastFrame == get_from_stack(last.stack, last.frame_pointer)

\* C8: STORE Arg i with i >= n_args and STORE Local i with i >= n_locals,
\* the boundary i = n included, fail with InvalidStoreIndex and write no
\* slot of the operand stack.
C8_StoreAtCountIsRefused ==
    (last.instr.op = "STORE" /\ LastFrame.some /\ last.acc # << >>
     /\ \/ last.instr.x = Arg /\ last.instr.a >= LastFrame.n_args
        \/ last.instr.x = Local /\ last.instr.a >= LastFrame.n_locals)
        => /\ last.err.kind = "InvalidStoreIndex"
           /\ \A k \in 1..Min(Len(operand_stack), Len(last.stack)) :
                 operand_stack[k] = last.stack[k]

\* C9: BINOP DIV and BINOP MOD with a right operand of 0 end the run with
\* the fatal error DivisionByZero: no result is pushed and no later
\* instruction is executed.
C9_DivisionByZeroIsReported ==
    (last.instr.op = "BINOP" /\ last.instr.x \in {DIV, MOD} /\ Len(last.acc) = 2
     /\ unwrap(last.acc[1]) = 0)
        => /\ last.err.kind = "DivisionByZero"
           /\ Len(operand_stack) = Len(last.stack) - 2
           /\ pc # "run"

\* The number of bytes of the tag at the given offset of the string table,
\* its terminating NUL not counted
TagBytes(offset) == Len(get_string_at_offset(bf.string_table, offset).bytes) - 1

\* C10: a SEXP whose tag is 11 bytes long, the NUL not counted, is rejected
\* with SexpTagTooLong, and the error is not raised for a tag of at most
\* MAX_SEXP_TAGLEN = 10 bytes.
C10_TagLengthLimit ==
    (verified.instr.op = "SEXP"
     /\ get_string_at_offset(bf.string_table, verified.instr.a).err = "none")
        => /\ TagBytes(verified.instr.a) = MAX_SEXP_TAGLEN + 1
                => verified.err.kind = "SexpTagTooLong"
           /\ TagBytes(verified.instr.a) <= MAX_SEXP_TAGLEN
                => verified.err.kind # "SexpTagTooLong"

\* The instruction the walker's decoder reads at an offset
WalkedAt(o) == Decoder_fetch(bf.code_section, o)

\* C11: when get_reachables returns Ok, every public-symbol offset is marked
\* reachable, every marked offset decodes to a valid instruction, and the
\* fall-through offset of each such instruction (unless it is RET, END, FAIL
\* or JMP), its JMP/CJMP target, its CALL target and its CLOSURE code offset
\* are marked as well.
C11_ReachablesClosed ==
    (mode = "lamarifyer" /\ pc = "verify")
        => /\ \A k \in 1..Len(bf.public_symbols) :
                 bf.public_symbols[k][2] \in reachables
           /\ \A o \in reachables :
                 /\ WalkedAt(o).err = "none"
                 /\ WalkedAt(o).instr.op \notin {"RET", "END", "FAIL", "JMP"}
                       => WalkedAt(o).ip \in reachables
                 /\ WalkedAt(o).instr.op \in {"JMP", "CJMP", "CALL", "CLOSURE"}
                       => WalkedAt(o).instr.a \in reachables

\* C11 witness: the walk returned Ok on an image with a CALL whose target is
\* not its fall-through offset
C11_Witness ==
    /\ mode = "lamarifyer" /\ pc = "verify"
    /\ \E o \in reachables :
          /\ WalkedAt(o).instr.op = "CALL"
          /\ WalkedAt(o).instr.a # WalkedAt(o).ip
          /\ WalkedAt(o).instr.a \in reachables

\* The number of values an instruction takes from the operand stack
Needs(instr) ==
    CASE instr.op \in {"DROP", "CJMP"} -> 1
      [] instr.op \in {"BINOP", "ELEM", "STI"} -> 2
      [] instr.op = "PATT" /\ instr.x = 0 -> 2
      [] instr.op = "STA" -> 3
      [] instr.op = "SEXP" -> instr.b
      [] instr.op = "CALLB" /\ instr.x = Barray -> instr.a
      [] OTHER -> 0

\* The abstract height after the instruction verify_instruction was last
\* called on, as an isize
HeightAfterVerified ==
    isize_add(isize(verified.before), stack_size_effect(verified.instr))

\* C12: an instruction that drives the abstract height h below 0 makes
\* verify return StackUnderflow(k), k being the number of values the
\* instruction takes from the stack; one that drives h above
\* MAX_OPERAND_STACK_SIZE makes it return StackOverflow; so after every
\* instruction verify accepted, and when verify returns Ok,
\* 0 <= h <= MAX_OPERAND_STACK_SIZE.
C12_HeightIsChecked ==
    /\ verified.instr # NoInstr
          => /\ HeightAfterVerified.hi < 0
                   => verified.err = Err("StackUnderflow", << Needs(verified.instr) >>)
             /\ HeightAfterVerified.hi > MAX_OPERAND_STACK_SIZE \div 65536
                   => verified.err = Err("StackOverflow", << >>)
             /\ verified.err = Ok
                   => HeightAfterVerified.hi \in 0..(MAX_OPERAND_STACK_SIZE \div 65536)
    /\ (pc = "patch" /\ verify_result = Ok) => current_stack_depth >= 0

\* C12 witness: verify returned StackUnderflow(2) for a BINOP found at
\* height 0
C12_Witness ==
    /\ pc = "exit"
    /\ verified.instr.op = "BINOP"
    /\ verified.before = 0
    /\ verify_result = Err("StackUnderflow", << 2 >>)

\* The END or RET evaluated last returned from a CALL and found, above the
\* frame pointer, the frame of the callee and one value
BalancedReturn ==
    /\ last.instr.op \in {"END", "RET"}
    /\ last.err = Ok
    /\ last.call.some
    /\ LastFrame.some
    /\ Len(last.stack) = last.frame_pointer + 1 + 4 + LastFrame.n_args
                            + LastFrame.n_locals + 1

\* C13: after the END or RET of a stack-balanced function of a arguments
\* entered by a CALL, the frame pointer is the one before the CALL, ip is
\* the offset after the CALL, and the stack is the caller's stack beneath
\* the a arguments followed by exactly one value, the return value: no
\* metadata, argument or local slot of the callee remains.
C13_ReturnRestoresCaller ==
    BalancedReturn
        => /\ frame_pointer = last.call.frame_pointer
           /\ ip = last.call.next
           /\ operand_stack =
                 SubSeq(last.call.stack, 1, Len(last.call.stack) - LastFrame.n_args)
                   \o << last.stack[Len(last.stack)] >>

\* C13 witness: a function of two arguments and two locals returned through
\* RET to a caller holding an operand beneath the arguments
C13_Witness ==
    /\ BalancedReturn
    /\ last.instr.op = "RET"
    /\ LastFrame.n_args = 2
    /\ LastFrame.n_locals = 2
    /\ Len(last.call.stack) > last.call.frame_pointer + 1 + 4 + 2 + 2

\* The frame the running function has now
FrameNow == get_from_stack(operand_stack, frame_pointer)

\* C14: BEGIN a n, found with the saved ip on top of the stack and a
\* argument values beneath it, leaves a frame whose metadata reads
\* n_args = a, n_locals = n, saved frame pointer = the frame pointer before
\* BEGIN and saved ip = the value popped from the top; argument i is the
\* i-th value the caller pushed and each of the n locals is box(0).
C14_BeginBuildsFrame ==
    (last.instr.op = "BEGIN" /\ last.err = Ok)
        => LET a == last.instr.a
               n == last.instr.b
               top == Len(last.stack)
           IN  /\ FrameNow.some
               /\ FrameNow.n_args = a
               /\ FrameNow.n_locals = n
               /\ FrameNow.ret_frame_pointer = last.frame_pointer
               /\ FrameNow.ret_ip = unwrap(last.stack[top])
               /\ Len(operand_stack) = frame_pointer + 1 + 4 + a + n
               /\ \A i \in 0..(a - 1) :
                     Slot(operand_stack, arg_index(frame_pointer, i))
                       = last.stack[top - a + i]
               /\ \A j \in 0..(n - 1) :
                     Slot(operand_stack, local_index(FrameNow, frame_pointer, j))
                       = Boxed(1)

\* C14 witness: the BEGIN 2 2 of a called function found two different
\* arguments beneath the saved ip
C14_Witness ==
    /\ last.instr.op = "BEGIN" /\ last.err = Ok
    /\ last.instr.a = 2 /\ last.instr.b = 2
    /\ calls # << >>
    /\ last.stack[Len(last.stack) - 2] # last.stack[Len(last.stack) - 1]

\* The STORE or LOAD evaluated last found a whole frame beneath one operand
\* at least, and its index is one of the frame's arguments or locals, or
\* one of the globals
InRangeAccess ==
    /\ last.instr.op \in {"STORE", "LOAD"}
    /\ LastFrame.some
    /\ Len(last.stack) > last.frame_pointer + 5 + LastFrame.n_args + LastFrame.n_locals
    /\ \/ last.instr.x = Arg /\ last.instr.a \in 0..(LastFrame.n_args - 1)
       \/ last.instr.x = Local /\ last.instr.a \in 0..(LastFrame.n_locals - 1)
       \/ last.instr.x = Global /\ last.instr.a \in 0..(Len(last.globals) - 1)

\* The position in the operand stack of the slot the access addresses, 0
\* for a global
AddressedSlot ==
    CASE last.instr.x = Arg -> last.frame_pointer + 5 + last.instr.a + 1
      [] last.instr.x = Local ->
            last.frame_pointer + 5 + LastFrame.n_args + last.instr.a + 1
      [] OTHER -> 0

\* C15: for rel in {Arg, Local, Global} and an index in range, STORE rel i
\* leaves the depth of the stack unchanged and the stored value on top,
\* writes the addressed slot and changes no other argument, local, global
\* or metadata slot; a LOAD rel i that follows pushes the same value.
C15_StoreThenLoad ==
    /\ (InRangeAccess /\ last.instr.op = "STORE")
          => LET value == last.stack[Len(last.stack)]
             IN  /\ last.err = Ok
                 /\ Len(operand_stack) = Len(last.stack)
                 /\ operand_stack[Len(operand_stack)] = value
                 /\ \A k \in 1..(Len(last.stack) - 1) :
                       operand_stack[k] = IF k = AddressedSlot THEN value
                                          ELSE last.stack[k]
                 /\ Len(globals) = Len(last.globals)
                 /\ \A g \in 1..Len(globals) :
                       globals[g] = IF last.instr.x = Global /\ g = last.instr.a + 1
                                    THEN value ELSE last.globals[g]
    /\ (InRangeAccess /\ last.instr.op = "LOAD" /\ last.prev.op = "STORE"
        /\ last.prev.x = last.instr.x /\ last.prev.a = last.instr.a)
          => /\ last.err = Ok
             /\ operand_stack = last.stack \o << last.stack[Len(last.stack)] >>
             /\ globals = last.globals

\* C15 witness: LOAD Local 1 after STORE Local 1 of a value that differs
\* from what the local held
C15_Witness ==
    /\ InRangeAccess /\ last.instr.op = "LOAD" /\ last.prev.op = "STORE"
    /\ last.instr.x = Local /\ last.instr.a = 1 /\ last.prev.x = Local /\ last.prev.a = 1
    /\ operand_stack[Len(operand_stack)] = new_boxed(7)

\* The word v is what the operator op of the table gives for l and r, r not
\* being zero for DIV and MOD: the quotient is rounded toward zero and the
\* remainder has the sign of l
IsBinopOf(op, l, r, v) ==
    CASE op = ADD -> v = l + r
      [] op = SUB -> v = l - r
      [] op = MUL -> v = l * r
      [] op = DIV -> LET m == l - v * r
                     IN  /\ m * m < r * r
                         /\ m = 0 \/ (m < 0) = (l < 0)
      [] op = MOD -> /\ v * v < r * r
                     /\ v = 0 \/ (v < 0) = (l < 0)
                     /\ \E q \in (-(l * l))..(l * l) : l = q * r + v
      [] op = LT -> v = (IF l < r THEN 1 ELSE 0)
      [] op = LEQ -> v = (IF l <= r THEN 1 ELSE 0)
      [] op = GT -> v = (IF l > r THEN 1 ELSE 0)
      [] op = GEQ -> v = (IF l >= r THEN 1 ELSE 0)
      [] op = EQ -> v = (IF l = r THEN 1 ELSE 0)
      [] op = NEQ -> v = (IF l # r THEN 1 ELSE 0)
      [] op = AND -> v = (IF l # 0 /\ r # 0 THEN 1 ELSE 0)
      [] op = OR -> v = (IF l # 0 \/ r # 0 THEN 1 ELSE 0)
      [] OTHER -> FALSE

\* C16: BINOP op pops r from the top, then l, and pushes box(op(l, r)), l
\* being the operand pushed earlier, for each of the 13 operators; LT, LEQ,
\* GT, GEQ, EQ, NEQ, AND and OR push only 0 or 1, AND pushing 1 iff both
\* operands are non-zero and OR iff one at least is.
C16_BinopTable ==
    (last.instr.op = "BINOP" /\ Len(last.stack) > 2
     /\ ~(last.instr.x \in {DIV, MOD} /\ unwrap(last.stack[Len(last.stack)]) = 0))
        => LET n == Len(last.stack)
               pushed == operand_stack[Len(operand_stack)]
           IN  /\ last.err = Ok
               /\ Len(operand_stack) = n - 1
               /\ SubSeq(operand_stack, 1, n - 2) = SubSeq(last.stack, 1, n - 2)
               /\ pushed.boxed
               /\ pushed.v = rtBox(unwrap(pushed))
               /\ IsBinopOf(last.instr.x, unwrap(last.stack[n - 1]),
                            unwrap(last.stack[n]), unwrap(pushed))
               /\ last.instr.x \in {LT, LEQ, GT, GEQ, EQ, NEQ, AND, OR}
                     => unwrap(pushed) \in {0, 1}

\* C16 witness: -7 DIV 2 pushed box(-3)
C16_Witness ==
    /\ last.instr.op = "BINOP" /\ last.instr.x = DIV /\ last.err = Ok
    /\ Len(last.stack) > 2
    /\ unwrap(last.stack[Len(last.stack) - 1]) = -7
    /\ unwrap(last.stack[Len(last.stack)]) = 2
    /\ operand_stack[Len(operand_stack)] = new_boxed(-3)

\* The number of bytes the instruction at offset `at` of the code section
\* takes: the opcode, its i32 immediates and, for CLOSURE, arity records of
\* a relation byte and a word (counted up to the length of the section)
RequiredBytes(code, at) ==
    LET t == OpcodeOf(code[at + 1])
        fixed == 1 + 4 * t.n
    IN  IF t.op = "CLOSURE" /\ at + fixed <= Len(code)
        THEN fixed + 5 * Min(Max(next_i32(code, at + 5), 0), Len(code))
        ELSE fixed

\* C17: next and decode never leave the cursor beyond the end of the code
\* section, and when fewer bytes remain than the opcode and its immediates
\* require, decode returns ReadingMoreThenCodeSection.
C17_DecodeStaysInside ==
    fetched.who # "none"
        => /\ fetched.end <= Len(FetchedFrom)
           /\ (/\ fetched.at < Len(FetchedFrom)
               /\ OpcodeOf(FetchedFrom[fetched.at + 1]).op # "INVALID"
               /\ fetched.at + RequiredBytes(FetchedFrom, fetched.at) > Len(FetchedFrom))
                 => fetched.err = "ReadingMoreThenCodeSection"

\* The variant and the number of i32 immediates that the opcode table gives
\* for a byte, by its high and low nibble; "INVALID" for a byte not listed
TableVariant(byte) ==
    LET hi == byte \div 16
        lo == byte % 16
        row == << hi, lo >>
    IN  CASE row = << 0, 0 >> -> [op |-> "NOP", n |-> 0]
          [] hi = 0 /\ lo \in 1..13 -> [op |-> "BINOP", n |-> 0]
          [] hi = 1 /\ lo \in 0..11 ->
                [op |-> << "CONST", "STRING", "SEXP", "STI", "STA", "JMP", "END", "RET",
                           "DROP", "DUP", "SWAP", "ELEM" >>[lo + 1],
                 n |-> << 1, 1, 2, 0, 0, 1, 0, 0, 0, 0, 0, 0 >>[lo + 1]]
          [] hi \in 2..4 /\ lo \in 0..3 ->
                [op |-> << "LOAD", "LOADREF", "STORE" >>[hi - 1], n |-> 1]
          [] hi = 5 /\ lo \in 0..10 ->
                [op |-> << "CJMP", "CJMP", "BEGIN", "CBEGIN", "CLOSURE", "CALLC", "CALL",
                           "TAG", "ARRAY", "FAIL", "LINE" >>[lo + 1],
                 n |-> << 1, 1, 2, 2, 2, 1, 2, 2, 1, 2, 1 >>[lo + 1]]
          [] hi = 6 /\ lo \in 0..6 -> [op |-> "PATT", n |-> 0]
          [] hi = 7 /\ lo \in 0..3 -> [op |-> "CALLB", n |-> 0]
          [] row = << 7, 4 >> -> [op |-> "CALLB", n |-> 1]
          [] OTHER -> [op |-> "INVALID", n |-> 0]

\* The most recent fetch found the opcode, eight bytes after it and the
\* capture records of a CLOSURE
FetchedWhole ==
    /\ fetched.who # "none"
    /\ fetched.at >= 0
    /\ fetched.at + 9 <= Len(FetchedFrom)
    /\ fetched.at + RequiredBytes(FetchedFrom, fetched.at) <= Len(FetchedFrom)

\* C18: for each of the 256 opcode bytes decode returns the variant the
\* opcode table gives for its high and low nibble, with the immediates read
\* as little-endian i32 in the order of declaration, and InvalidOpcode for
\* every byte the table does not list (0x0E, 0x1C, 0x24, 0x5B, 0x67, 0x75,
\* 0x80..0xFF among them).
C18_OpcodeTable ==
    FetchedWhole
        => LET byte == FetchedFrom[fetched.at + 1]
               t == TableVariant(byte)
               imm(k) == from_le_bytes(SubSeq(FetchedFrom, fetched.at + 4 * k - 2,
                                              fetched.at + 4 * k + 1))
           IN  IF t.op = "INVALID" THEN fetched.err = "InvalidOpcode"
               ELSE /\ fetched.err = "none"
                    /\ fetched.instr.op = t.op
                    /\ t.n >= 1 => fetched.instr.a = imm(1)
                    /\ t.n = 2 => fetched.instr.b = imm(2)
                    /\ t.op \in {"BINOP", "PATT", "LOAD", "LOADREF", "STORE", "CJMP",
                                  "CALLB"} => fetched.instr.x = byte % 16

\* The reachable offsets that hold a LOAD or STORE of a global whose index
\* is negative or not below global_area_size
BadGlobals ==
    {o \in reachables :
        /\ WalkedAt(o).err = "none"
        /\ WalkedAt(o).instr.op \in {"LOAD", "STORE"}
        /\ WalkedAt(o).instr.x = Global
        /\ ~InBounds(WalkedAt(o).instr.a, bf.global_area_size)}

\* C19: the verifier rejects every reachable LOAD Global i and STORE Global i
\* with i < 0 or i >= global_area_size, i = global_area_size included, with
\* InvalidLoadIndex for LOAD and InvalidStoreIndex for STORE, and accepts
\* every index with 0 <= i < global_area_size.
C19_GlobalIndexChecked ==
    /\ (mode = "lamarifyer" /\ pc = "patch") => BadGlobals = {}
    /\ (verified.instr.op \in {"LOAD", "STORE"} /\ verified.instr.x = Global)
          => IF InBounds(verified.instr.a, bf.global_area_size)
             THEN verified.err.kind \notin {"InvalidLoadIndex", "InvalidStoreIndex"}
             ELSE verified.err =
                    Err(IF verified.instr.op = "LOAD" THEN "InvalidLoadIndex"
                        ELSE "InvalidStoreIndex",
                        << Global, verified.instr.a, bf.global_area_size >>)


\* The object an ELEM that reads slot index of the heap object o is to push:
\* the word a SEXP or an array holds there, the boxed byte for a string
StoredElement(o, index) ==
    IF o.kind = "STRING" THEN new_boxed(o.contents[index + 1])
    ELSE Boxed(o.contents[index + 1])

\* C20: ELEM pops the index, then the aggregate; with index < 0 or index >=
\* the length of the aggregate it fails with OutOfBoundsAccess(index, length)
\* and pushes nothing; otherwise it pushes the element stored at that index,
\* so that an array built by Barray from the pushed values v0..v(n-1) yields
\* vi at index i.
C20_ElemContract ==
    (last.instr.op = "ELEM" /\ Len(last.stack) > 2
     /\ last.stack[Len(last.stack) - 1].boxed
     /\ IsAddr(heap, last.stack[Len(last.stack) - 1].v))
        => LET n == Len(last.stack)
               index == unwrap(last.stack[n])
               o == ObjAt(heap, last.stack[n - 1].v)
               length == Len(o.contents)
               rest == SubSeq(last.stack, 1, n - 2)
           IN  IF index < 0 \/ index >= length
               THEN /\ last.err = Err("OutOfBoundsAccess", << index, length >>)
                    /\ operand_stack = rest
               ELSE /\ last.err = Ok
                    /\ operand_stack = Append(rest, StoredElement(o, index))

\* The step evaluated last is a CALL Barray n that found n values above a
\* stack that stays occupied
BarrayRan ==
    /\ last.instr.op = "CALLB"
    /\ last.instr.x = Barray
    /\ last.instr.a >= 0
    /\ Len(last.stack) > last.instr.a

\* C21: CALL Barray n pops exactly n values and pushes one array of length n
\* whose element i is the i-th pushed value, the topmost popped value being
\* element n-1, and leaves the values beneath the n arguments untouched
\* (Barray 0 consumes nothing); CALL Llength on an array of length n pushes
\* box(n) in place of the array.
C21_BarrayBuildsArray ==
    /\ BarrayRan
          => LET n == last.instr.a
                 m == Len(last.stack)
                 top == operand_stack[Len(operand_stack)]
             IN  /\ last.err = Ok
                 /\ Len(operand_stack) = m - n + 1
                 /\ SubSeq(operand_stack, 1, m - n) = SubSeq(last.stack, 1, m - n)
                 /\ top.boxed
                 /\ IsAddr(heap, top.v)
                 /\ ObjAt(heap, top.v).kind = "ARRAY"
                 /\ LlengthOf(heap, top.v) = n
                 /\ \A i \in 0..(n - 1) :
                       ObjAt(heap, top.v).contents[i + 1] = raw(last.stack[m - n + 1 + i])
    /\ (/\ last.instr.op = "CALLB"
        /\ last.instr.x = Llength
        /\ Len(last.stack) > 1
        /\ last.stack[Len(last.stack)].boxed
        /\ IsAddr(heap, last.stack[Len(last.stack)].v)
        /\ ObjAt(heap, last.stack[Len(last.stack)].v).kind = "ARRAY")
          => /\ last.err = Ok
             /\ operand_stack =
                   Append(SubSeq(last.stack, 1, Len(last.stack) - 1),
                          new_boxed(Len(ObjAt(heap, last.stack[Len(last.stack)].v).contents)))

\* C21 witness: Barray 2 ran above CONST 7 with 2 and 3 on top, and the array
\* it pushed holds box(2) and box(3) in that order
C21_Witness ==
    /\ BarrayRan
    /\ last.instr.a = 2
    /\ last.err = Ok
    /\ last.stack[Len(last.stack) - 2] = new_boxed(7)
    /\ ObjAt(heap, operand_stack[Len(operand_stack)].v).contents = << rtBox(2), rtBox(3) >>

\* The step evaluated last is a CJMP that found, above a stack that stays
\* occupied, a tagged word or an empty slot
CjmpRan ==
    /\ last.instr.op = "CJMP"
    /\ Len(last.stack) > 1
    /\ last.stack[Len(last.stack)].boxed \/ last.stack[Len(last.stack)] = new_empty

\* C22: CJMP off,kind pops exactly one value v; with kind ISZERO it sets ip
\* to off iff unbox(v) = 0, with kind ISNONZERO iff unbox(v) # 0; in the
\* other case ip is the fall-through position; the rest of the stack, the
\* frame pointer and the globals do not change.
C22_CjmpBranches ==
    CjmpRan
       => LET v == last.stack[Len(last.stack)]
              zero == rtUnbox(raw(v)) = 0
          IN  /\ last.err = Ok
              /\ operand_stack = SubSeq(last.stack, 1, Len(last.stack) - 1)
              /\ frame_pointer = last.frame_pointer
              /\ globals = last.globals
              /\ last.instr.x = ISZERO => ip = (IF zero THEN last.instr.a ELSE last.ip)
              /\ last.instr.x = ISNONZERO => ip = (IF zero THEN last.ip ELSE last.instr.a)

\* C22 witness: a CJMP ISZERO 24 on box(1) fell through to offset 19
C22_Witness ==
    /\ CjmpRan
    /\ last.instr.x = ISZERO
    /\ last.instr.a = 24
    /\ last.stack[Len(last.stack)] = new_boxed(1)
    /\ ip = 19

\* Bits 63 and 62 of the word agree: -2^62 <= x < 2^62
TopBitFree(x) == (x[4] \div 32768) = ((x[4] \div 16384) % 2)

\* C23: for every integer i with the top bit free (-2^62 <= i < 2^62),
\* unbox(box(i)) = i and is_unboxed(box(i)); and for every machine word i,
\* also when the left shift overflows, box(i) has its low bit set.
C23_BoxRoundTrip ==
    probe.fn = "rtBox"
       => /\ isUnboxed_i64(probe.box)
          /\ TopBitFree(probe.word) => probe.unbox = probe.word

\* C23 witness: -2^62, the least word with the top bit free, was boxed and
\* came back
C23_Witness ==
    /\ probe.fn = "rtBox"
    /\ probe.word = << 0, 0, 0, 49152 >>
    /\ probe.box = << 1, 0, 0, 32768 >>
    /\ probe.unbox = probe.word

\* The u32 that four bytes spell, the least significant first, for a word
\* below 2^31
LeU32(bytes) == bytes[1] + 256 * bytes[2] + 65536 * bytes[3] + 16777216 * bytes[4]

\* The bytes are laid out as S, globals, P, P pairs of words, S bytes of
\* strings and the code: the header is whole and the table sizes it
\* announces fit in what follows
WellLaidOut(bytes) ==
    /\ Len(bytes) >= 12
    /\ bytes[4] < 128
    /\ bytes[12] < 128
    /\ LeU32(SubSeq(bytes, 9, 12)) <= (Len(bytes) - 12) \div 8
    /\ LeU32(SubSeq(bytes, 1, 4)) <= Len(bytes) - 12 - 8 * LeU32(SubSeq(bytes, 9, 12))

\* C24: for every byte sequence laid out as S, globals, P, P pairs of u32, S
\* string-table bytes and the code bytes, parse returns an image whose
\* string-table size is S, whose global_area_size is globals, whose
\* public-symbol table is exactly the P pairs in input order, whose string
\* table equals the S bytes and whose code section equals all the remaining
\* bytes.
C24_ParseKeepsSections ==
    (pc # "parse" /\ WellLaidOut(source))
       => LET S == LeU32(SubSeq(source, 1, 4))
              P == LeU32(SubSeq(source, 9, 12))
          IN  /\ bf.err = "none"
              /\ bf.stringtab_size = S
              /\ to_le_bytes(bf.global_area_size) = SubSeq(source, 5, 8)
              /\ bf.public_symbols_number = P
              /\ Len(bf.public_symbols) = P
              /\ \A k \in 1..P :
                    /\ to_le_bytes(bf.public_symbols[k][1])
                          = SubSeq(source, 8 * k + 5, 8 * k + 8)
                    /\ to_le_bytes(bf.public_symbols[k][2])
                          = SubSeq(source, 8 * k + 9, 8 * k + 12)
              /\ bf.string_table = SubSeq(source, 12 + 8 * P + 1, 12 + 8 * P + S)
              /\ bf.code_section = SubSeq(source, 12 + 8 * P + S + 1, Len(source))

\* C24 witness: an image of two public symbols, a string table of five bytes
\* and a code section was parsed
C24_Witness ==
    /\ pc # "parse"
    /\ WellLaidOut(source)
    /\ bf.public_symbols = << << 0, 0 >>, << 0, 15 >> >>
    /\ bf.string_table = Main
    /\ Len(bf.code_section) > 0

\* C25: get_string_at_offset(offset) returns the bytes of the string table
\* from offset up to and including the first NUL at or after offset; it
\* returns an error value, and does not abort, whenever offset >= S or no
\* NUL byte exists at or after offset. Stated for the offset of the STRING
\* or SEXP the interpreter evaluated last.
C25_StringAtOffset ==
    (last.instr.op \in {"STRING", "SEXP"})
       => LET tab == image.string_table
              offset == last.instr.a
              r == get_string_at_offset(tab, offset)
              n == Len(r.bytes)
          IN  IF \/ offset < 0
                 \/ offset >= Len(tab)
                 \/ \A k \in (offset + 1)..Len(tab) : tab[k] # 0
              THEN /\ r.err \notin {"none", "panic"}
                   /\ last.err \notin {Ok, Panic}
              ELSE /\ r.err = "none"
                   /\ n > 0
                   /\ r.bytes = SubSeq(tab, offset + 1, offset + n)
                   /\ r.bytes[n] = 0
                   /\ \A k \in 1..(n - 1) : r.bytes[k] # 0

\* The published bounds are the first and the last occupied slot of the
\* buffer buf holding len elements
PublishedFor(g, buf, len) ==
    /\ g.set
    /\ g.bottom = << buf, 0 >>
    /\ g.top = << buf, len - 1 >>
    /\ len >= 1

\* C26: after every push or pop that returns Ok the published bottom is the
\* address of slot 0 and the published top is the address of the last
\* occupied slot of the current backing storage of the operand stack, so at
\* every later heap allocation bottom <= top and both lie inside the operand
\* stack.
C26_StackBoundsPublished ==
    /\ (/\ last.instr # NoInstr
        /\ last.acc # << >> \/ operand_stack # last.stack
        /\ operand_stack # << >>)
          => PublishedFor(gc, gc.buf, Len(operand_stack))
    /\ (gc.alloc.some /\ gc.alloc.set)
          => PublishedFor(gc.alloc, gc.alloc.buf, gc.alloc.len)

\* C26 witness: a heap allocation found the bounds published in the third
\* buffer of the stack, the one a push moved the stack to
C26_Witness ==
    /\ gc.alloc.some
    /\ gc.alloc.set
    /\ gc.alloc.buf = 3
    /\ gc.alloc.top = << 3, gc.alloc.len - 1 >>

\* C27: the interpreter's JMP with an offset that is negative or >= the
\* length of the code section returns InvalidJumpOffset(ip, offset,
\* code_len) and leaves ip and the operand stack unchanged; with an offset
\* inside the code section it sets ip to that offset and changes nothing
\* else.
C27_JmpChecksOffset ==
    last.instr.op = "JMP"
       => /\ operand_stack = last.stack
          /\ frame_pointer = last.frame_pointer
          /\ globals = last.globals
          /\ IF last.instr.a < 0 \/ last.instr.a >= Len(image.code_section)
             THEN /\ last.err = Err("InvalidJumpOffset",
                                    << last.ip, last.instr.a, Len(image.code_section) >>)
                  /\ ip = last.ip
             ELSE /\ last.err = Ok
                  /\ ip = last.instr.a

\* C27 witness: a JMP to the length of the code section, 20, was refused
C27_Witness ==
    /\ last.instr.op = "JMP"
    /\ last.instr.a = 20
    /\ Len(image.code_section) = 20
    /\ last.err = Err("InvalidJumpOffset", << 19, 20, 20 >>)
    /\ ip = 19

\* C28: END or RET executed when the operand stack does not hold, above the
\* frame pointer, the four frame metadata slots and a return value fails
\* with NotEnoughArguments("END"); BEGIN a n executed when the stack holds
\* fewer than a + 1 values fails with NotEnoughArguments("BEGIN"); neither
\* continues execution.
C28_FrameMovesNeedSlots ==
    /\ (/\ last.instr.op \in {"END", "RET"}
        /\ Len(last.stack) - (last.frame_pointer + 1) < 4 + 1)
          => /\ last.err = Err("NotEnoughArguments", << "END" >>)
             /\ pc # "run"
    /\ (/\ last.instr.op = "BEGIN"
        /\ last.instr.a >= 0
        /\ Len(last.stack) < last.instr.a + 1)
          => /\ last.err = Err("NotEnoughArguments", << "BEGIN" >>)
             /\ pc # "run"

\* C28 witness: an END found the four metadata slots of main's frame and
\* nothing above them
C28_Witness ==
    /\ last.instr.op = "END"
    /\ last.frame_pointer = 4
    /\ Len(last.stack) = 9
    /\ last.err = Err("NotEnoughArguments", << "END" >>)
    /\ pc # "run"

\* C29: verify applies its per-instruction checks to the instruction that
\* starts at each reachable offset, once per offset and in ascending order:
\* on every iteration its decoding cursor is at the reachable offset being
\* processed, also across unreachable bytes and across JMPs, and it returns
\* Ok only with every reachable offset processed.
C29_VerifyVisitsEachReachable ==
    /\ (pc = "verify" /\ vidx <= Len(addresses)) => decoder_ip = addresses[vidx]
    /\ (mode = "lamarifyer" /\ pc = "patch") => vidx > Len(addresses)

\* C30: for every image parse accepts (with no public symbols, with a code
\* section that is empty or shorter than 10 bytes, with a public-symbol,
\* CALL or CLOSURE offset outside the code section, or whose last reachable
\* instruction is not terminal) get_reachables and verify return Ok or an
\* error value: they never abort.
C30_VerifierNeverAborts ==
    mode = "lamarifyer" => verify_result # Panic

\* C31: the stack_depths slot keyed by a function's BEGIN holds the maximum
\* abstract height over that function's own instructions, its BEGIN
\* included: once a BEGIN is verified, the slot of the function it opens
\* holds at least the height the prologue reached, and the prologue did not
\* land in the slot of the function before.
C31_DepthRecordedPerFunction ==
    (/\ mode = "lamarifyer"
     /\ fetched.who = "verifier"
     /\ verified.instr.op \in {"BEGIN", "CBEGIN"}
     /\ verified.err = Ok
     /\ InBounds(current_function_begin_offset, Len(bf.code_section)))
        => stack_depths[current_function_begin_offset] >= current_stack_depth

\* C32: every recorded depth d with 0 < d <= MAX_OPERAND_STACK_SIZE is read
\* back unchanged from the patched image: the upper 16 bits of the word
\* eight bytes before the slot equal d.
C32_HintEqualsDepth ==
    (/\ mode = "lamarifyer"
     /\ verify_result = Ok
     /\ Len(image.code_section) > 0)
        => \A o \in 8..(Len(image.code_section) - 1) :
              (stack_depths[o] > 0 /\ stack_depths[o] <= MAX_OPERAND_STACK_SIZE)
                 => image.code_section[o - 5] + 256 * image.code_section[o - 4]
                      = stack_depths[o]

\* C33: the patched image differs from the parsed one only in the upper 16
\* bits of the first immediate of reachable BEGIN and CBEGIN instructions:
\* the header, the string table, the public symbols and every other byte of
\* the code section are the same.
C33_PatchTouchesBeginHintsOnly ==
    (/\ mode = "lamarifyer"
     /\ verify_result = Ok
     /\ Len(image.code_section) > 0)
        => /\ [image EXCEPT !.code_section = bf.code_section] = bf
           /\ Len(image.code_section) = Len(bf.code_section)
           /\ \A k \in 1..Len(bf.code_section) :
                 image.code_section[k] # bf.code_section[k]
                    => \E o \in reachables :
                          /\ OpcodeOf(bf.code_section[o + 1]).op \in {"BEGIN", "CBEGIN"}
                          /\ k \in {o + 4, o + 5}

\* The stack effect table: push minus pop for each instruction variant
EffectTable(instr) ==
    CASE instr.op \in {"NOP", "JMP", "END", "RET", "SWAP", "STORE", "TAG", "ARRAY",
                       "FAIL", "LINE"} -> isize(0)
      [] instr.op \in {"BINOP", "STI", "DROP", "ELEM", "CJMP"} -> isize(-1)
      [] instr.op \in {"CONST", "STRING", "DUP", "LOAD", "LOADREF", "CLOSURE", "CALL",
                       "CALLC"} -> isize(1)
      [] instr.op = "STA" -> isize(-2)
      [] instr.op = "SEXP" -> isize_add(isize(1), isize_neg(isize(instr.b)))
      [] instr.op \in {"BEGIN", "CBEGIN"} ->
            isize_add(isize(instr.a), isize_add(isize(instr.b), isize(6)))
      [] instr.op = "CALLB" /\ instr.x = Lread -> isize(1)
      [] instr.op = "CALLB" /\ instr.x \in {Lwrite, Llength, Lstring} -> isize(0)
      [] instr.op = "CALLB" /\ instr.x = Barray ->
            isize_add(isize(1), isize_neg(isize(instr.a)))
      [] instr.op = "PATT" -> (IF instr.x = 0 THEN isize(-1) ELSE isize(0))

\* C34: for every instruction variant the verifier's stack_size_effect is
\* the push-minus-pop value of the stack effect table: the height
\* verify_instruction leaves is the height it found plus the table's value
\* (zero after END), a sum below zero is refused as StackUnderflow and a sum
\* above MAX_OPERAND_STACK_SIZE as StackOverflow.
C34_EffectTable ==
    (fetched.who = "verifier" /\ verified.instr # NoInstr /\ verified.instr.op # "HALT")
        => LET w == isize_add(isize(verified.before), EffectTable(verified.instr))
           IN  /\ (verified.err.kind = "StackUnderflow") <=> (w.hi < 0)
               /\ (verified.err = Err("StackOverflow", << >>))
                     <=> (w.hi > MAX_OPERAND_STACK_SIZE \div 65536)
               /\ verified.err.kind \notin {"StackUnderflow", "StackOverflow"}
                     => current_stack_depth =
                           IF verified.instr.op = "END" /\ verified.err = Ok THEN 0
                           ELSE w.hi * 65536 + w.lo

\* C34 witness: STA verified at height 11 left height 9
C34_Witness ==
    /\ fetched.who = "verifier"
    /\ verified.instr.op = "STA"
    /\ verified.before = 11
    /\ verified.err = Ok
    /\ current_stack_depth = 9

\* C35: the verifier closes the current function on RET as on END: after a
\* RET is verified the abstract height is zero.
C35_RetResetsHeight ==
    (/\ fetched.who = "verifier"
     /\ verified.instr.op \in {"END", "RET"}
     /\ verified.err = Ok)
        => current_stack_depth = 0

ImmediateAt(o) == from_le_bytes(SubSeq(bf.code_section, o + 2, o + 5))

\* The reachable offsets that hold an instruction of one of the opcodes
ReachableWith(opcodes) == {o \in reachables : bf.code_section[o + 1] \in opcodes}

C38_SexpMembersReadBack ==
    /\ (/\ last.instr.op = "SEXP"
        /\ last.instr.b >= 0
        /\ Len(last.stack) > last.instr.b
        /\ get_string_at_offset(image.string_table, last.instr.a).err = "none")
          => LET n == last.instr.b
                 m == Len(last.stack)
                 top == operand_stack[Len(operand_stack)]
             IN  /\ last.err = Ok
                 /\ Len(operand_stack) = m - n + 1
                 /\ SubSeq(operand_stack, 1, m - n) = SubSeq(last.stack, 1, m - n)
                 /\ top.boxed
                 /\ IsAddr(heap, top.v)
                 /\ ObjAt(heap, top.v).kind = "SEXP"
                 /\ LlengthOf(heap, top.v) = n
                 /\ \A i \in 0..(n - 1) :
                       ObjAt(heap, top.v).contents[i + 1] = raw(last.stack[m - n + 1 + i])
    /\ (/\ last.instr.op = "ELEM"
        /\ Len(last.stack) > 2
        /\ last.stack[Len(last.stack) - 1].boxed
        /\ IsAddr(heap, last.stack[Len(last.stack) - 1].v)
        /\ ObjAt(heap, last.stack[Len(last.stack) - 1].v).kind = "SEXP"
        /\ unwrap(last.stack[Len(last.stack)]) >= 0
        /\ unwrap(last.stack[Len(last.stack)])
              < LlengthOf(heap, last.stack[Len(last.stack) - 1].v))
          => /\ last.err = Ok
             /\ raw(operand_stack[Len(operand_stack)])
                   = ObjAt(heap, last.stack[Len(last.stack) - 1].v)
                        .contents[unwrap(last.stack[Len(last.stack)]) + 1]

\* C39: Interpreter::pop returns StackUnderflow only on a stack that is
\* empty before the call, and removes and returns the top value of a stack
\* that holds one or more values, the only value included: a DROP, which is
\* one pop, on a stack of one or more values succeeds and leaves the values
\* beneath, and fails with StackUnderflow only on the empty stack.
C39_PopFailsOnlyWhenEmpty ==
    (mode = "lama_rs" /\ last.instr.op = "DROP")
        => /\ Len(last.stack) >= 1
              => /\ last.err = Ok
                 /\ operand_stack = SubSeq(last.stack, 1, Len(last.stack) - 1)
           /\ last.err = StackUnderflow => last.stack = << >>

\* C40: LOAD Arg i and LOAD Local i push only values of the argument and
\* local slots of the current frame: with i >= n_args (i >= n_locals for
\* Local) the LOAD fails with an index error and pushes nothing.
C40_LoadStaysInFrame ==
    (/\ last.instr.op = "LOAD"
     /\ LastFrame.some
     /\ \/ last.instr.x = Arg /\ last.instr.a >= LastFrame.n_args
        \/ last.instr.x = Local /\ last.instr.a >= LastFrame.n_locals)
        => /\ last.err.kind \in {"InvalidStoreIndex", "InvalidLoadIndex"}
           /\ operand_stack = last.stack

=========================================================================
